---------------------------- MODULE Spec2Model ----------------------------
(***************************************************************************)
(* Quota ledger of the translation panel: the Redis-backed daily usage     *)
(* counter (src/lib/quotaStore.ts) and the translate handler that checks   *)
(* it, calls the remote API and records the usage                          *)
(* (src/app/api/translate/route.ts).                                       *)
(*                                                                         *)
(* A Date is a pair [day, ms]: the count of UTC days since 1970-01-01 and  *)
(* the millisecond within that day (a JavaScript Date holds a 53-bit       *)
(* millisecond count, which does not fit the checker's integers).          *)
(* A JavaScript number that need not be an integer (a usage figure of the  *)
(* provider) is held in tenths; token totals are integers.                 *)
(***************************************************************************)
EXTENDS Integers, Sequences, FiniteSets, TLC

\* ------------------------------------------------------------------ bounds
MaxTick == 4
MaxFaults == 1

\* --------------------------------------------------------------- constants
DAILY_TOKEN_LIMIT == 2500000
MS_PER_DAY == 86400000
MS_PER_SECOND == 1000

\* two translate requests, served concurrently by any instances
Procs == {1, 2}
Models == {"gpt-5-mini", "gpt-4o-mini"}

Max(a, b) == IF a >= b THEN a ELSE b

\* ------------------------------------------------------------------- dates
Date(d, m) == [day |-> d, ms |-> m]

\* The instants the wall clock passes through, in order:
\*   2024-12-31 10:00:00.500, 23:59:59.900,
\*   2025-01-01 00:00:00.100, 00:00:00.950, 00:00:02.000, 12:00:00.000
Times ==
  << Date(20088, 36000500), Date(20088, 86399900),
     Date(20089, 100),      Date(20089, 950),
     Date(20089, 2000),     Date(20089, 43200000) >>

TickIndex(i) == IF i <= Len(Times) THEN i ELSE Len(Times)

\* a <= b on dates
DateLE(a, b) == a.day < b.day \/ (a.day = b.day /\ a.ms <= b.ms)

\* date + k milliseconds (k >= 0)
AddMs(t, k) ==
  LET s == t.ms + k
  IN  Date(t.day + (s \div MS_PER_DAY), s % MS_PER_DAY)

\* getUTCFullYear / getUTCMonth + 1 / getUTCDate of a day count
\* (proleptic Gregorian calendar).
CivilFromDays(days) ==
  LET z   == days + 719468
      era == z \div 146097
      doe == z - era * 146097
      yoe == (doe - (doe \div 1460) + (doe \div 36524) - (doe \div 146096)) \div 365
      doy == doe - (365 * yoe + (yoe \div 4) - (yoe \div 100))
      mp  == (5 * doy + 2) \div 153
      d   == doy - ((153 * mp + 2) \div 5) + 1
      m   == IF mp < 10 THEN mp + 3 ELSE mp - 9
      y   == yoe + era * 400 + (IF m <= 2 THEN 1 ELSE 0)
  IN  [year |-> y, month |-> m, date |-> d]

\* String(n).padStart(2, "0") as the sequence of its decimal digits
PadStart2(n) ==
  IF n < 10 THEN <<0, n>>
  ELSE IF n < 100 THEN <<n \div 10, n % 10>>
  ELSE <<n \div 100, (n \div 10) % 10, n % 10>>

\* the date key taken from the local calendar date of a zone eight hours
\* east of UTC (getFullYear / getMonth / getDate on such a host)
currentDateKey_LocalTime(now) ==
  LET c == CivilFromDays(AddMs(now, 8 * 3600 * MS_PER_SECOND).day)
  IN  <<c.year, PadStart2(c.month), PadStart2(c.date)>>

\* `${year}-${month}-${day}`
currentDateKey(now) ==
  LET c == CivilFromDays(now.day)
  IN  <<c.year, PadStart2(c.month), PadStart2(c.date)>>

\* the day count of a calendar date; a day of the month past the month's
\* end runs on into the next month, as Date.UTC normalises it
DaysFromCivil(y, m, d) ==
  LET yy  == IF m <= 2 THEN y - 1 ELSE y
      era == yy \div 400
      yoe == yy - era * 400
      mp  == IF m > 2 THEN m - 3 ELSE m + 9
      doy == ((153 * mp + 2) \div 5) + d - 1
      doe == yoe * 365 + (yoe \div 4) - (yoe \div 100) + doy
  IN  era * 146097 + doe - 719468

\* new Date(Date.UTC(year, monthIndex, date, 0, 0, 0, 0))
DateUTC(year, monthIndex, date) == Date(DaysFromCivil(year, monthIndex + 1, date), 0)

\* a.getTime() - b.getTime()
DiffMs(a, b) == (a.day - b.day) * MS_PER_DAY + (a.ms - b.ms)

\* Date.UTC(y, m, d + 1, 0, 0, 0, 0)
nextUtcMidnight(now) ==
  LET c == CivilFromDays(now.day)
  IN  DateUTC(c.year, c.month - 1, c.date + 1)

\* nextMidnight.getTime() - now.getTime(); secondsUntilNextUtcMidnight
\* builds its own nextMidnight, by the expression of nextUtcMidnight
MsUntilNextUtcMidnight(now) == DiffMs(nextUtcMidnight(now), now)

secondsUntilNextUtcMidnight(now) ==
  Max(1, MsUntilNextUtcMidnight(now) \div MS_PER_SECOND)

DayKeys == { currentDateKey(Times[i]) : i \in 1..Len(Times) }
NoDayKey == <<0, <<0, 0>>, <<0, 0>>>>

\* ----------------------------------------------------------------- numbers
\* a JavaScript number | null: k is "num" (finite, v in tenths), "null",
\* "nan" or "inf" (v = 1 for +Infinity, -1 for -Infinity)
Num(v10) == [k |-> "num", v |-> v10]
Int2Num(n) == [k |-> "num", v |-> n * 10]
Null == [k |-> "null", v |-> 0]

\* Math.round of a value in tenths
MathRound(v10) == (v10 + 5) \div 10
\* Math.ceil(n / 3) of an integer n >= 0
CeilDiv3(n) == (n + 2) \div 3

\* the normalisation with Math.floor in place of Math.round
normaliseTokens_Floor(tokens) ==
  IF tokens.k # "num" \/ tokens.v <= 0 THEN 0 ELSE Max(0, tokens.v \div 10)

normaliseTokens(tokens) ==
  IF tokens.k # "num" \/ tokens.v <= 0 THEN 0 ELSE Max(0, MathRound(tokens.v))

\* x ?? 0
OrZero(x) == IF x.k = "null" THEN Num(0) ELSE x

\* usage is [present, total_tokens, input_tokens, output_tokens]; the result
\* is the integer handed to incrementQuota
normaliseUsage(usage, sourceLen, translatedLen) ==
  LET total  == IF usage.present THEN usage.total_tokens ELSE Null
      input  == IF usage.present THEN OrZero(usage.input_tokens) ELSE Num(0)
      output == IF usage.present THEN OrZero(usage.output_tokens) ELSE Num(0)
      estimated == CeilDiv3(sourceLen) + CeilDiv3(translatedLen)
  IN  IF total.k = "num" /\ total.v # 0 /\ total.v > 0
        THEN MathRound(total.v)
      ELSE IF input.v + output.v > 0
        THEN MathRound(input.v + output.v)
      ELSE Max(1, estimated)

\* ------------------------------------------------------------ quota status
\* the status with remaining = limit - used, not clamped
toQuotaStatus_NoClamp(used, now) ==
  [ used       |-> used,
    limit      |-> DAILY_TOKEN_LIMIT,
    remaining  |-> DAILY_TOKEN_LIMIT - used,
    resetAt    |-> nextUtcMidnight(now),
    serverTime |-> now ]

toQuotaStatus(used, now) ==
  [ used       |-> used,
    limit      |-> DAILY_TOKEN_LIMIT,
    remaining  |-> Max(0, DAILY_TOKEN_LIMIT - used),
    resetAt    |-> nextUtcMidnight(now),
    serverTime |-> now ]

NoStatus ==
  [ used |-> -1, limit |-> 0, remaining |-> -1,
    resetAt |-> Date(0, 0), serverTime |-> Date(0, 0) ]

\* ------------------------------------------------------------- redis store
KeyTypes == {"total", "requests", "models"}

\* `${BASE_KEY}:${dateKey}:${type}`
composeKey(dateKey, type) == <<"token-usage", dateKey, type>>

Keys == { composeKey(d, t) : d \in DayKeys, t \in KeyTypes }

NoExp == Date(-1, 0)
NoFields == [m \in Models |-> 0]

\* a key that does not exist
Absent(k) ==
  [ present |-> FALSE,
    val     |-> IF k[3] = "models" THEN NoFields ELSE 0,
    exp     |-> NoExp ]

EmptyStore == [k \in Keys |-> Absent(k)]

\* GET key: [nil, val]
RedisGet(s, k) == [nil |-> ~s[k].present, val |-> s[k].val]

\* SET-like overwrite of the counter (a lost-update form of INCRBY)
RedisIncrBy_Overwrite(s, k, n) ==
  [s EXCEPT ![k] = [present |-> TRUE, val |-> n, exp |-> @.exp]]

\* INCRBY key n: creates the key at n when absent; keeps the expiry
RedisIncrBy(s, k, n) ==
  [s EXCEPT ![k] = [present |-> TRUE, val |-> @.val + n, exp |-> @.exp]]

\* INCR key
RedisIncr(s, k) == RedisIncrBy(s, k, 1)

\* HINCRBY key field n
RedisHIncrBy(s, k, field, n) ==
  [s EXCEPT ![k] = [present |-> TRUE,
                    val |-> [@.val EXCEPT ![field] = @ + n],
                    exp |-> @.exp]]

\* EXPIRE key seconds (no NX): always moves the expiry
RedisExpire_Always(s, k, seconds, at) ==
  IF s[k].present
    THEN [s EXCEPT ![k].exp = AddMs(at, seconds * MS_PER_SECOND)]
    ELSE s

\* EXPIRE key seconds NX at server time `at`: only on an existing key that
\* has no expiry
RedisExpireNX(s, k, seconds, at) ==
  IF s[k].present /\ s[k].exp = NoExp
    THEN [s EXCEPT ![k].exp = AddMs(at, seconds * MS_PER_SECOND)]
    ELSE s

\* the keys whose expiry has passed at server time `at` are gone
PurgeExpired(s, at) ==
  [k \in Keys |->
     IF s[k].present /\ s[k].exp # NoExp /\ DateLE(s[k].exp, at)
       THEN Absent(k) ELSE s[k]]

\* a read that takes a token of the day for its caller
StoreAfterGet_Reserve(s, k) == RedisIncrBy(s, k, 1)

\* the store after GET key: a read changes nothing
StoreAfterGet(s, k) == s

\* RedisQuotaStore.getUsage: totalRaw ? Number(totalRaw) : 0
getUsage(s, dateKey) ==
  LET totalRaw == RedisGet(s, composeKey(dateKey, "total"))
  IN  IF totalRaw.nil THEN 0 ELSE totalRaw.val

\* the MULTI ... EXEC of incrementUsage without the request counter
\* (a write that is not all-or-nothing)
Transaction_Partial(s, dateKey, tokens, model, expireSeconds, at) ==
  IF tokens > 0 THEN RedisIncrBy(s, composeKey(dateKey, "total"), tokens) ELSE s

\* the same with the INCRBY and HINCRBY queued whatever the tokens
Transaction_AlwaysIncrBy(s, dateKey, tokens, model, expireSeconds, at) ==
  LET totalKey    == composeKey(dateKey, "total")
      requestsKey == composeKey(dateKey, "requests")
      modelsKey   == composeKey(dateKey, "models")
      s1 == RedisIncrBy(s, totalKey, tokens)
      s2 == RedisIncr(s1, requestsKey)
      s3 == RedisExpireNX(s2, totalKey, expireSeconds, at)
      s4 == RedisExpireNX(s3, requestsKey, expireSeconds, at)
  IN  IF model # ""
        THEN RedisExpireNX(RedisHIncrBy(s4, modelsKey, model, tokens),
                           modelsKey, expireSeconds, at)
        ELSE s4

\* the MULTI ... EXEC of RedisQuotaStore.incrementUsage, applied at server
\* time `at`; model is "" when meta.model is missing
Transaction(s, dateKey, tokens, model, expireSeconds, at) ==
  LET totalKey    == composeKey(dateKey, "total")
      requestsKey == composeKey(dateKey, "requests")
      modelsKey   == composeKey(dateKey, "models")
      s1 == IF tokens > 0 THEN RedisIncrBy(s, totalKey, tokens) ELSE s
      s2 == RedisIncr(s1, requestsKey)
      s3 == RedisExpireNX(s2, totalKey, expireSeconds, at)
      s4 == RedisExpireNX(s3, requestsKey, expireSeconds, at)
      s5 == IF model # "" /\ tokens > 0
              THEN RedisExpireNX(RedisHIncrBy(s4, modelsKey, model, tokens),
                                 modelsKey, expireSeconds, at)
              ELSE s4
  IN  s5

\* an EXEC that reports failure after running part of its queue
TransactionAborted_Partial(s, dateKey, tokens, model, expireSeconds, at) ==
  RedisIncr(s, composeKey(dateKey, "requests"))

\* the MULTI ... EXEC whose exec() resolves to null: Redis has run none of
\* the queued commands
TransactionAborted(s, dateKey, tokens, model, expireSeconds, at) == s

\* ------------------------------------------------------------ tokenEstimator
MIN_RESPONSE_TOKENS == 64
\* RESPONSE_RATIO = 1.2, in tenths
RESPONSE_RATIO == 12
CHAT_MESSAGE_OVERHEAD == 12
RESPONSE_OVERHEAD == 3

SUPPORTED_MODELS ==
  {"gpt-5-mini", "gpt-5-nano", "gpt-4.1-mini", "gpt-4.1-nano",
   "gpt-4o-mini", "o3-mini", "o4-mini"}

Min(a, b) == IF a <= b THEN a ELSE b
\* Math.ceil(a / b) and Math.round(a / b) of integers a >= 0, b > 0
CeilDiv(a, b) == (a + b - 1) \div b
RoundDiv(a, b) == (2 * a + b) \div (2 * b)

\* a string, as far as trim() and length can tell: `lead` characters of
\* white space, a body of `body` characters that neither starts nor ends
\* with white space, `trail` characters of white space
Text(lead, body, trail) == [lead |-> lead, body |-> body, trail |-> trail]
Trim(t) == Text(0, t.body, 0)
Length(t) == t.lead + t.body + t.trail
EmptyText == Text(0, 0, 0)

\* a Tiktoken encoder, as far as the lengths of its encodings go: the
\* tokens of the system prompt, those of the prompt body around the text,
\* and the characters of text that make one token
Encoder(system, frame, charsPerToken) ==
  [system |-> system, frame |-> frame, charsPerToken |-> charsPerToken]

\* encoder.encode(text).length
EncodeLength(enc, t) == CeilDiv(Length(t), enc.charsPerToken)

\* encoder.encode(buildTranslationPrompt(text, ...)).length, and the same
\* for the image instruction: "auto" is spelled "auto-detect"
PromptLength(enc, t, sourceLang) ==
  enc.frame + (IF sourceLang = "auto" THEN 2 ELSE 1) + EncodeLength(enc, t)

\* ---- estimateImageTokens
\* PATCH_BASE_MODELS, multipliers in hundredths (0: the tile rule applies)
PATCH_BASE_MODELS ==
  [m \in SUPPORTED_MODELS |->
     IF m \in {"gpt-5-mini", "gpt-4.1-mini"} THEN 162
     ELSE IF m \in {"gpt-5-nano", "gpt-4.1-nano"} THEN 246
     ELSE IF m = "o4-mini" THEN 172
     ELSE 0]

NoTileSpec == [base |-> 0, tile |-> 0]
TILE_BASE_MODELS ==
  [m \in SUPPORTED_MODELS |->
     IF m = "gpt-4o-mini" THEN [base |-> 2833, tile |-> 5667]
     ELSE IF m = "o3-mini" THEN [base |-> 75, tile |-> 150]
     ELSE NoTileSpec]

RECURSIVE FloorSqrtBetween(_, _, _)
\* the largest n in lo..hi with n * n <= v (lo * lo <= v is given)
FloorSqrtBetween(v, lo, hi) ==
  IF lo >= hi THEN lo
  ELSE LET mid == (lo + hi + 1) \div 2
       IN  IF mid * mid <= v THEN FloorSqrtBetween(v, mid, hi)
           ELSE FloorSqrtBetween(v, lo, mid - 1)

\* Math.floor(x * Math.sqrt(k / (x * y))) for integers x, y >= 1 and
\* k = 32 * 32 * k1: the integer part of the square root of x * k / y,
\* found as 32 * q + s from the root q of x * k1 / y so that no
\* intermediate value leaves 32 bits
FloorScaled(x, y, k) ==
  LET k1 == k \div (32 * 32)
      v1 == (x * k1) \div y
      rest == (32 * 32 * ((x * k1) % y)) \div y
      q == FloorSqrtBetween(v1, 0, 46340)
      Fits(t) == 64 * q * t + t * t <= 32 * 32 * (v1 - q * q) + rest
  IN  32 * q + CHOOSE t \in 0..31 : Fits(t) /\ (t = 31 \/ ~Fits(t + 1))

\* the number NaN, where a token count is one
NaNTokens == -1

\* the low-detail branch of the tile rule falling through to the tiles
estimateImageTokens_LowAsHigh(model, width10, height10, detail) ==
  LET width  == Max(1, width10 \div 10)
      height == Max(1, height10 \div 10)
      tileSpec == TILE_BASE_MODELS[model]
      tiles == CeilDiv(width, 512) * CeilDiv(height, 512)
  IN  IF PATCH_BASE_MODELS[model] # 0
        THEN RoundDiv(CeilDiv(width, 32) * CeilDiv(height, 32)
                        * PATCH_BASE_MODELS[model], 100)
      ELSE tileSpec.base + tiles * tileSpec.tile

\* the patches estimateImageTokens counts for a patch-based model:
\* Math.ceil(w / 32) * Math.ceil(h / 32) after the optional resize
countedPatches(width10, height10) ==
  LET width  == Max(1, width10 \div 10)
      height == Max(1, height10 \div 10)
      maxPatches == 1536
      rawPatches == CeilDiv(width, 32) * CeilDiv(height, 32)
      w1 == FloorScaled(width, height, 32 * 32 * maxPatches)
      h1 == FloorScaled(height, width, 32 * 32 * maxPatches)
      w == IF rawPatches > maxPatches
              THEN Max(32, (w1 \div 32) * 32) ELSE width
      h == IF rawPatches > maxPatches
              THEN Max(32, (h1 \div 32) * 32) ELSE height
  IN  CeilDiv(w, 32) * CeilDiv(h, 32)

\* estimateImageTokens(model, width, height, detail); the dimensions are in
\* tenths of a pixel
estimateImageTokens(model, width10, height10, detail) ==
  LET width  == Max(1, width10 \div 10)      \* Math.max(1, Math.floor(width))
      height == Max(1, height10 \div 10)
      patchMultiplier == PATCH_BASE_MODELS[model]
      maxPatches == 1536
      rawPatches == CeilDiv(width, 32) * CeilDiv(height, 32)
      w1 == FloorScaled(width, height, 32 * 32 * maxPatches)
      h1 == FloorScaled(height, width, 32 * 32 * maxPatches)
      pw == IF rawPatches > maxPatches
              THEN Max(32, (w1 \div 32) * 32) ELSE width
      ph == IF rawPatches > maxPatches
              THEN Max(32, (h1 \div 32) * 32) ELSE height
      tileSpec == TILE_BASE_MODELS[model]
      maxDim == Max(width, height)
      tw == IF maxDim > 2048 THEN RoundDiv(width * 2048, maxDim) ELSE width
      th == IF maxDim > 2048 THEN RoundDiv(height * 2048, maxDim) ELSE height
      minDim == Min(tw, th)
      tiles == IF minDim = 0 THEN 0
               ELSE CeilDiv(RoundDiv(tw * 768, minDim), 512)
                      * CeilDiv(RoundDiv(th * 768, minDim), 512)
      \* a side rounded to 0 makes the scale 768 / 0 and the tiles NaN
      tiled == IF minDim = 0 THEN NaNTokens
               ELSE tileSpec.base + tiles * tileSpec.tile
  IN  IF patchMultiplier # 0
        THEN RoundDiv(CeilDiv(pw, 32) * CeilDiv(ph, 32) * patchMultiplier,
                      100)
      ELSE IF tileSpec # NoTileSpec
        THEN IF detail = "low" THEN tileSpec.base ELSE tiled
      ELSE CeilDiv(width * height, 32 * 32)

\* ---- estimateTranslationTokenUsage
TokenEstimate(system, prompt, source, response, total) ==
  [ systemTokens |-> system, promptTokens |-> prompt,
    sourceTokens |-> source, estimatedResponseTokens |-> response,
    totalTokens |-> total ]
ZeroEstimate == TokenEstimate(0, 0, 0, 0, 0)

NoImage == [width |-> 0, height |-> 0, detail |-> "none"]
Image(w10, h10, detail) == [width |-> w10, height |-> h10, detail |-> detail]

\* the value a promise settles with: fulfilled with an estimate or rejected
Fulfilled(est) == [kind |-> "fulfilled", est |-> est]
Rejected == [kind |-> "rejected", est |-> ZeroEstimate]
Unsettled == [kind |-> "pending", est |-> ZeroEstimate]

\* Math.max(MIN_RESPONSE_TOKENS, Math.round(sourceTokens * RESPONSE_RATIO),
\* sourceTokens) + RESPONSE_OVERHEAD
ResponseTokens(sourceTokens) ==
  Max(Max(MIN_RESPONSE_TOKENS, RoundDiv(sourceTokens * RESPONSE_RATIO, 10)),
      sourceTokens) + RESPONSE_OVERHEAD

\* estimateTranslationTokenUsage of the text-only module; `ready` tells
\* whether getEncoder resolves
textEstimateTranslationTokenUsage(ready, enc, text, sourceLang) ==
  LET trimmed == Trim(text)
      systemTokens == enc.system + CHAT_MESSAGE_OVERHEAD
      promptTokens == PromptLength(enc, trimmed, sourceLang)
                        + CHAT_MESSAGE_OVERHEAD
      sourceTokens == EncodeLength(enc, trimmed)
      estimatedResponseTokens == ResponseTokens(sourceTokens)
  IN  IF Length(trimmed) = 0 THEN Fulfilled(ZeroEstimate)
      ELSE IF ~ready THEN Rejected
      ELSE Fulfilled(TokenEstimate(
             systemTokens, promptTokens, sourceTokens,
             estimatedResponseTokens,
             systemTokens + promptTokens + estimatedResponseTokens))

\* estimateTranslationTokenUsage of the module that also takes an image
\* (NoImage when params.image is missing, EmptyText when params.text is)
estimateTranslationTokenUsage(ready, enc, text, image, model, sourceLang) ==
  LET systemTokens == enc.system + CHAT_MESSAGE_OVERHEAD
      trimmed == Trim(text)
      promptTokens == PromptLength(enc, trimmed, sourceLang)
                        + CHAT_MESSAGE_OVERHEAD
      sourceTokens == EncodeLength(enc, trimmed)
      estimatedResponseTokens == ResponseTokens(sourceTokens)
      imagePromptTokens == PromptLength(enc, EmptyText, sourceLang)
                             + CHAT_MESSAGE_OVERHEAD
      imageTokens == estimateImageTokens(model, image.width, image.height,
                                         image.detail)
      imageResponseTokens == MIN_RESPONSE_TOKENS + RESPONSE_OVERHEAD
  IN  IF ~ready THEN Rejected
      ELSE IF image # NoImage
        THEN Fulfilled(TokenEstimate(
               systemTokens, imagePromptTokens, imageTokens,
               imageResponseTokens,
               IF imageTokens = NaNTokens THEN NaNTokens
               ELSE systemTokens + imagePromptTokens + imageTokens
                      + imageResponseTokens))
      ELSE IF Length(trimmed) = 0 THEN Fulfilled(ZeroEstimate)
      ELSE Fulfilled(TokenEstimate(
             systemTokens, promptTokens, sourceTokens,
             estimatedResponseTokens,
             systemTokens + promptTokens + sourceTokens
               + estimatedResponseTokens))

\* fallbackCharacterEstimate with Math.floor in place of Math.ceil
fallbackCharacterEstimate_Floor(text) == Max(0, Length(Trim(text)) \div 3)

\* fallbackCharacterEstimate(text)
fallbackCharacterEstimate(text) == Max(0, CeilDiv3(Length(Trim(text))))

\* a direct call of the estimator's functions: the module called ("text":
\* the text-only one, "image": the one that takes an image), whether its
\* getEncoder resolves, the encoder, the arguments, and what the functions
\* called so far have given
NoEstimateCall ==
  [ module |-> "none", ready |-> FALSE, enc |-> Encoder(0, 0, 1),
    text |-> EmptyText, image |-> NoImage, model |-> "gpt-5-mini",
    sourceLang |-> "auto", called |-> {},
    result |-> Unsettled, imageTokens |-> 0, fallback |-> 0 ]

\* ------------------------------------------------------------------- state
VARIABLES
  tick,            \* position of the wall clock in Times
  configured,      \* process.env.REDIS_URL is set
  faults,          \* the Redis operations that have failed so far
  store,           \* the keys of the Redis server
  rq,              \* the translate requests (POST /api/translate)
  reached,         \* history: the day keys whose total has reached the limit
  lifetime,        \* history: per day key, the transactions applied to the
                   \* total key since it was last absent, and the requests
                   \* in flight when the total reached the limit
  probe,           \* the arguments and results of direct calls of the
                   \* library's functions (unused by the translate handler)
  tokenizer,       \* the browser's tokenizer module: wasmInitPromise and
                   \* encoderCache, and the estimation calls in flight
  page,            \* the state of the Home component (page.tsx)
  conn             \* globalForQuota.__redisClient of one server instance
                   \* and the getRedisClient calls in flight

vars ==
  <<tick, configured, faults, store, rq, reached, lifetime, probe,
    tokenizer, page, conn>>

clock == Times[TickIndex(tick)]

NoUsage == [present |-> FALSE, total_tokens |-> Null,
            input_tokens |-> Null, output_tokens |-> Null]
Usage(t, i, o) == [present |-> TRUE, total_tokens |-> t,
                   input_tokens |-> i, output_tokens |-> o]

\* what the remote API can answer: the trimmed output's length and the usage
\* report (1,500,000; 2,600,000; 0.4; none, with input 0.6; no report)
Replies ==
  { [model |-> "gpt-5-mini", srcLen |-> 4, outLen |-> 5,
     usage |-> Usage(Num(15000000), Null, Null)],
    [model |-> "gpt-4o-mini", srcLen |-> 4, outLen |-> 5,
     usage |-> Usage(Num(26000000), Num(10), Num(10))],
    [model |-> "gpt-5-mini", srcLen |-> 4, outLen |-> 5,
     usage |-> Usage(Num(4), Null, Null)],
    [model |-> "gpt-4o-mini", srcLen |-> 4, outLen |-> 2,
     usage |-> NoUsage],
    [model |-> "gpt-5-mini", srcLen |-> 4, outLen |-> 0,
     usage |-> NoUsage] }

NoResp == [status |-> 0, error |-> "", quota |-> NoStatus]
Resp(st, err, q) == [status |-> st, error |-> err, quota |-> q]

\* an error object: its class and the quota status it carries, if any
ErrorObject(name, status) == [name |-> name, status |-> status]
NoError == ErrorObject("none", NoStatus)

\* new QuotaDisabledError(reason) and any other rejection
QuotaDisabledError == ErrorObject("QuotaDisabledError", NoStatus)
OtherError == ErrorObject("Error", NoStatus)

\* a quota-exceeded error of the class of the storage failures
DailyQuotaExceededError_AsDisabled == ErrorObject("QuotaDisabledError", NoStatus)

\* new DailyQuotaExceededError(): the constructor takes a message only
DailyQuotaExceededError == ErrorObject("DailyQuotaExceededError", NoStatus)

\* the response stream of a request: the events enqueued, whether
\* controller.close() was called, whether an enqueue was tried after that
\* (it throws); what was aggregated of the deltas ("", "blank": white
\* space only, "text"); history: incrementQuota returned a status, and
\* that status
MaxDeltas == 2
NoStream ==
  [ events |-> <<>>, closed |-> FALSE, threw |-> FALSE,
    aggregated |-> "", quota |-> NoStatus,
    recorded |-> FALSE, returned |-> NoStatus ]

IdleRequest ==
  [ pc |-> "idle", now |-> Times[1], seen |-> NoStatus,
    stream |-> NoStream,
    \* what ensureQuotaAvailable threw
    thrown |-> NoError,
    remote |-> "none", tokensUsed |-> 0, model |-> "", timestamp |-> Times[1],
    resp |-> NoResp,
    \* history: the quota check read the store on a UTC day whose total had
    \* already reached the limit
    late |-> FALSE,
    \* history: the transactions of the request that were applied, the day
    \* key and tokens of the last one, the key's total before it
    applied |-> 0, chargedKey |-> NoDayKey, charged |-> 0, chargedOnto |-> 0,
    \* history: the timestamp of that transaction and the server time of it
    chargedAt |-> Times[1], execAt |-> Times[1],
    \* history: the server time at which the remote call completed
    completedAt |-> Times[1] ]

\* history of a total key: the requests whose transactions were applied
\* since the key was last absent; once the total has reached the limit, the
\* requests that were then admitted and not yet recorded (racers) and those
\* whose handler had then begun and not yet recorded (begun)
NoLifetime == [applied |-> {}, crossed |-> FALSE, racers |-> {}, begun |-> {}]

\* no direct call has been made
NoProbe ==
  [ now |-> Times[1], used |-> 0, status |-> NoStatus, ttl |-> 0,
    \* how many incrementUsage calls were made on RedisQuotaStore, the
    \* last call of any kind (op, key, the tick it was made at, its result),
    \* history: per day key, the deltas the calls should have added to the
    \* total key since it was last absent
    calls |-> 0, op |-> "none", key |-> NoDayKey, at |-> 0, ret |-> 0,
    sum |-> [d \in DayKeys |-> 0],
    \* the normalised tokens and the model of the last incrementUsage
    tokens |-> 0, model |-> "",
    \* history: per day key, a call added tokens without a model
    bare |-> [d \in DayKeys |-> FALSE],
    \* how long after the instant of the clock the last incrementUsage was
    \* made (ms), and the tick of that instant
    offset |-> 0, offsetTick |-> 0,
    \* GET /api/quota: the variant called, how its Redis operation went,
    \* what getQuotaStatus gave and the response
    variant |-> "none", fault |-> "none", result |-> "none",
    resp |-> [status |-> 0, error |-> "", enabled |-> "absent",
              message |-> "", quota |-> NoStatus],
    \* the estimator's functions
    est |-> NoEstimateCall ]

\* the tokenizer module as loaded, the page as mounted, the server instance
\* as started
\* the tokenizer module as loaded: no initialisation started, nothing in
\* the encoder cache (0), no call of getEncoder in progress.  The registry
\* has the one encoding o200k_base, to which every supported model maps.
MaxStarts == 3
IdleEncoderCall == [pc |-> "idle", outcome |-> "none", encoder |-> 0]
NoTokenizer ==
  [ wasmInitPromise |-> "null",
    encoderCache |-> 0,
    \* history: invocations of init and of load, Tiktoken instances made,
    \* calls of getEncoder started
    inits |-> 0, loads |-> 0, instances |-> 0, starts |-> 0,
    call |-> [p \in Procs |-> IdleEncoderCall] ]
\* Home after its first render and effects: no input, the estimate 0, no
\* quota fetched yet
NoTimer == [set |-> FALSE, text |-> EmptyText]
NoQuotaInfo == [known |-> FALSE, remaining |-> 0]
NoRequestSent ==
  [ count |-> 0, text |-> EmptyText, image |-> NoImage,
    debounced |-> EmptyText, shown |-> 0, estimating |-> FALSE,
    quota |-> NoQuotaInfo ]
NoPage ==
  [ sourceText |-> EmptyText, image |-> NoImage, model |-> "gpt-5-mini",
    debouncedSourceText |-> EmptyText,
    \* the pending window.setTimeout of the debounce effect
    timer |-> NoTimer,
    estimatedTokens |-> 0, isEstimatingTokens |-> FALSE,
    tokenEstimateError |-> "null",
    quota |-> NoQuotaInfo, redisReady |-> TRUE, isLoading |-> FALSE,
    \* the estimateTranslationTokenUsage promises not yet settled, each
    \* with the `active` flag of the effect run that made it
    calls |-> {},
    \* history: the user's edits so far, how the promise of the live
    \* effect run settled if that was the last thing to happen ("stale"
    \* when the promise of an earlier run settled last), and the
    \* last translate request sent with what the page showed then
    edits |-> 0, settled |-> "none",
    sent |-> NoRequestSent ]
\* one server instance as started: the library it runs ("lenient": the one
\* whose getRedisClient returns null, "strict": the one whose getRedisClient
\* throws), no client in the slot (0), no client made, no disabled reason,
\* no call of getRedisClient in progress
MaxEnters == 3
Clients == 1..MaxEnters
IdleCall ==
  [ pc |-> "idle", client |-> 0,
    \* history: how the last call ended ("client", "undefined", "null",
    \* "threw"), the client it returned, the disabled reason then, whether
    \* it found a closed client in the slot, whether its reconnection
    \* failed, whether it made a client
    outcome |-> "none", ret |-> 0, reasonAtReturn |-> "null",
    foundClosed |-> FALSE, reconnectFailed |-> FALSE, created |-> FALSE ]
NoConn ==
  [ library |-> "lenient",
    slot |-> 0,
    \* per client: "unmade", "closed", "connecting" (connect() pending,
    \* isOpen already true) or "ready"
    clients |-> [c \in Clients |-> "unmade"],
    reason |-> "null",
    enters |-> 0,
    call |-> [p \in Procs |-> IdleCall] ]

\* the parts of the state the translate handler does not touch
Untouched ==
  /\ tokenizer = NoTokenizer
  /\ page = NoPage
  /\ conn = NoConn

Init ==
  /\ Untouched
  /\ tick = 1
  /\ configured \in BOOLEAN
  /\ faults = 0
  /\ store = EmptyStore
  /\ rq = [p \in Procs |-> IdleRequest]
  /\ reached = {}
  /\ lifetime = [d \in DayKeys |-> NoLifetime]
  /\ probe = NoProbe

\* -------------------------------------------------------------- environment
\* the history of a day key ends with its total key
LifetimeAfter(s, l) ==
  [d \in DayKeys |->
     IF s[composeKey(d, "total")].present THEN l[d] ELSE NoLifetime]

\* time passes; Redis drops the keys whose expiry has passed
Tick ==
  /\ tick < MaxTick
  /\ tick' = tick + 1
  /\ store' = PurgeExpired(store, Times[TickIndex(tick + 1)])
  /\ lifetime' = LifetimeAfter(store', lifetime)
  /\ UNCHANGED <<configured, faults, rq, reached, probe, tokenizer, page, conn>>

\* ------------------------------------------------------------ getRedisClient
\* how one Redis operation of a request can go: "none" (it works), "refused"
\* (no client: the connection or reconnection fails), "rejected" (the
\* command sent on the client rejects)
Faults == {"none", "refused", "rejected"}

FaultAllowed(f) == f = "none" \/ faults < MaxFaults
FaultCount(f) == IF f = "none" THEN faults ELSE faults + 1

\* getRedisClient(): a connected client, or null with the disabled reason
getRedisClient(f) ==
  IF ~configured
    THEN [ok |-> FALSE, reason |-> "REDIS_URL"]
  ELSE IF f = "refused"
    THEN [ok |-> FALSE, reason |-> "connect_failed"]
  ELSE [ok |-> TRUE, reason |-> "null"]

CommandRejects(f) == f = "rejected"

\* ----------------------------------------------------- POST /api/translate
Finish(p, resp) ==
  [rq EXCEPT ![p].pc = "done", ![p].resp = resp,
             ![p].now = Times[1], ![p].timestamp = Times[1],
             ![p].completedAt = Times[1],
             ![p].tokensUsed = 0, ![p].model = ""]

\* what follows ensureQuotaAvailable when it admits even at remaining = 0
AfterCheck_NoLimit(remaining) == "admitted"

\* ensureQuotaAvailable: status.remaining <= 0 throws DailyQuotaExceededError
AfterCheck(remaining) == IF remaining <= 0 THEN "exceeded" ELSE "admitted"

\* a catch block that lets a request through on a storage failure
AfterStorageFailure_FailOpen(p, resp) == [rq EXCEPT ![p].pc = "admitted"]

\* the catch block of the quota check: the request ends with the response
AfterStorageFailure(p, resp) == Finish(p, resp)

\* a catch block that answers with the success payload and an empty status
AfterRecordFailure_ReportSuccess(p, resp) ==
  Finish(p, Resp(200, "", toQuotaStatus(0, rq[p].timestamp)))

\* the catch block around incrementQuota: the request ends with the error
AfterRecordFailure(p, resp) == Finish(p, resp)

\* the handler proceeds to record whatever the output is
AfterRemote_NoEmptyCheck(outLen) == "exec"

\* if (!translation) return empty_translation
AfterRemote(outLen) == IF outLen = 0 THEN "done" ELSE "exec"

\* const now = new Date()
Begin(p) ==
  /\ rq[p].pc = "idle"
  /\ rq' = [rq EXCEPT ![p].pc = "check", ![p].now = clock]
  /\ UNCHANGED <<tick, configured, faults, store, reached, lifetime, probe, tokenizer, page, conn>>

\* await ensureQuotaAvailable(now) and the catch block after it
Check(p) ==
  /\ rq[p].pc = "check"
  /\ \E f \in Faults :
       /\ FaultAllowed(f)
       /\ faults' = FaultCount(f)
       /\ LET g == getRedisClient(f)
              status == toQuotaStatus(getUsage(store, currentDateKey(rq[p].now)),
                                      rq[p].now)
          IN  /\ IF ~g.ok
                   THEN rq' = [AfterStorageFailure(p, Resp(503, "quota_disabled", NoStatus))
                                 EXCEPT ![p].thrown = QuotaDisabledError]
                 ELSE IF CommandRejects(f)   \* client.get rejects
                   THEN rq' = [AfterStorageFailure(p, Resp(500, "quota_check_failed", NoStatus))
                                 EXCEPT ![p].thrown = OtherError]
                 ELSE rq' = [rq EXCEPT ![p].pc = AfterCheck(status.remaining),
                                       ![p].seen = status,
                                       ![p].thrown =
                                          IF AfterCheck(status.remaining) = "exceeded"
                                            THEN DailyQuotaExceededError ELSE NoError,
                                       ![p].late = currentDateKey(clock) \in reached]
              /\ store' = IF g.ok /\ ~CommandRejects(f)
                            THEN StoreAfterGet(store,
                                   composeKey(currentDateKey(rq[p].now), "total"))
                            ELSE store
  /\ UNCHANGED <<tick, configured, reached, lifetime, probe, tokenizer, page, conn>>

\* quotaExceededJson(now): reads the status again for the 429 response
ExceededJson(p) ==
  /\ rq[p].pc = "exceeded"
  /\ \E f \in Faults :
       /\ FaultAllowed(f)
       /\ faults' = FaultCount(f)
       /\ LET g == getRedisClient(f)
              quota == toQuotaStatus(getUsage(store, currentDateKey(rq[p].now)),
                                     rq[p].now)
          IN  /\ IF ~g.ok
                   THEN rq' = Finish(p, Resp(503, "quota_disabled", NoStatus))
                 ELSE IF CommandRejects(f)   \* the rejection escapes the handler
                   THEN rq' = Finish(p, Resp(500, "unhandled", NoStatus))
                 ELSE rq' = Finish(p, Resp(429, "quota_exceeded", quota))
              /\ store' = IF g.ok /\ ~CommandRejects(f)
                            THEN StoreAfterGet(store,
                                   composeKey(currentDateKey(rq[p].now), "total"))
                            ELSE store
  /\ UNCHANGED <<tick, configured, reached, lifetime, probe, tokenizer, page, conn>>

\* the request body is rejected (invalid_json, empty_text, unsupported_model)
BadRequest(p) ==
  /\ rq[p].pc = "admitted"
  /\ rq' = Finish(p, Resp(400, "bad_request", NoStatus))
  /\ UNCHANGED <<tick, configured, faults, store, reached, lifetime, probe, tokenizer, page, conn>>

\* openai.responses.create rejects (APIError, missing key, anything else)
RemoteFails(p) ==
  /\ rq[p].pc = "admitted"
  /\ rq' = [Finish(p, Resp(502, "translation_failed", NoStatus))
              EXCEPT ![p].remote = "threw"]
  /\ UNCHANGED <<tick, configured, faults, store, reached, lifetime, probe, tokenizer, page, conn>>

\* a usage record dated with the `now` of the quota check
usageTimestamp_Admission(now, completed) == now

\* timestamp: new Date() of the usage record, taken when the remote call
\* has completed
usageTimestamp(now, completed) == completed

\* openai.responses.create resolves: translation, tokensUsed, and the
\* timestamp of the usage record
RemoteReplies(p) ==
  /\ rq[p].pc = "admitted"
  /\ \E reply \in Replies :
       LET next == AfterRemote(reply.outLen)
           r1 == [rq EXCEPT
                    ![p].pc = next,
                    ![p].remote = IF reply.outLen = 0 THEN "empty" ELSE "output",
                    ![p].tokensUsed = normaliseUsage(reply.usage, reply.srcLen, reply.outLen),
                    ![p].model = reply.model,
                    ![p].timestamp = usageTimestamp(rq[p].now, clock),
                    ![p].completedAt = clock]
       IN  rq' = IF next = "done"
                   THEN [r1 EXCEPT ![p].resp = Resp(502, "empty_translation", NoStatus)]
                   ELSE r1
  /\ UNCHANGED <<tick, configured, faults, store, reached, lifetime, probe, tokenizer, page, conn>>

\* the history after request p's transaction on day key d
LifetimeExec(p, d, before, after) ==
  LET k == composeKey(d, "total")
      crossing == /\ before[k].val < DAILY_TOKEN_LIMIT
                  /\ after[k].val >= DAILY_TOKEN_LIMIT
      l == lifetime[d]
  IN  [lifetime EXCEPT ![d] =
         IF ~after[k].present THEN NoLifetime
         ELSE [ applied |-> l.applied \cup {p},
                crossed |-> l.crossed \/ crossing,
                racers  |-> IF crossing
                              THEN {q \in Procs : rq[q].pc \in {"admitted", "exec"}}
                              ELSE l.racers,
                begun   |-> IF crossing
                              THEN {q \in Procs : rq[q].pc \in {"check", "admitted", "exec"}}
                              ELSE l.begun ]]

\* incrementQuota up to await multi.exec()
Exec(p) ==
  /\ rq[p].pc = "exec"
  /\ \E f \in Faults :
       /\ FaultAllowed(f)
       /\ faults' = FaultCount(f)
       /\ LET g == getRedisClient(f)
              d == currentDateKey(rq[p].timestamp)
              tokens == normaliseTokens(Int2Num(rq[p].tokensUsed))
              after == Transaction(store, d, tokens, rq[p].model,
                                   secondsUntilNextUtcMidnight(rq[p].timestamp), clock)
          IN  /\ IF ~g.ok
                   THEN /\ rq' = AfterRecordFailure(p, Resp(503, "quota_disabled", NoStatus))
                        /\ UNCHANGED <<store, reached, lifetime, tokenizer, page, conn>>
                 ELSE IF CommandRejects(f)   \* multi.exec() rejects
                   THEN /\ rq' = AfterRecordFailure(p, Resp(500, "quota_persist_failed", NoStatus))
                        /\ UNCHANGED <<store, reached, lifetime, tokenizer, page, conn>>
                 ELSE /\ store' = after
                      /\ lifetime' = LifetimeExec(p, d, store, after)
                      /\ reached' = IF getUsage(after, d) >= DAILY_TOKEN_LIMIT
                                       THEN reached \cup {d} ELSE reached
                      /\ rq' = [rq EXCEPT ![p].pc = "readback",
                                            ![p].applied = @ + 1,
                                            ![p].chargedKey = d,
                                            ![p].charged = tokens,
                                            ![p].chargedOnto = getUsage(store, d),
                                            ![p].chargedAt = rq[p].timestamp,
                                            ![p].execAt = clock]
  /\ UNCHANGED <<tick, configured, probe, tokenizer, page, conn>>

\* multi.exec() resolves to null: the transaction was not executed
ExecNull(p) ==
  /\ rq[p].pc = "exec"
  /\ getRedisClient("none").ok
  /\ faults < MaxFaults
  /\ faults' = faults + 1
  /\ store' = TransactionAborted(store, currentDateKey(rq[p].timestamp),
                                 normaliseTokens(Int2Num(rq[p].tokensUsed)),
                                 rq[p].model,
                                 secondsUntilNextUtcMidnight(rq[p].timestamp), clock)
  /\ rq' = AfterRecordFailure(p, Resp(500, "quota_persist_failed", NoStatus))
  /\ UNCHANGED <<tick, configured, reached, lifetime, probe, tokenizer, page, conn>>

\* incrementQuota from the read of the new total to the handler's response
Readback(p) ==
  /\ rq[p].pc = "readback"
  /\ \E f \in {"none", "rejected"} :
       /\ FaultAllowed(f)
       /\ faults' = FaultCount(f)
       /\ LET d == currentDateKey(rq[p].timestamp)
              total == RedisGet(store, composeKey(d, "total"))
              quota == toQuotaStatus(IF total.nil THEN 0 ELSE total.val,
                                     rq[p].timestamp)
          IN  IF CommandRejects(f)   \* client.get rejects
                THEN rq' = AfterRecordFailure(p, Resp(500, "quota_persist_failed", NoStatus))
              ELSE IF quota.remaining <= 0
                THEN rq' = Finish(p, Resp(429, "quota_exceeded", quota))
              ELSE rq' = Finish(p, Resp(200, "", quota))
  /\ UNCHANGED <<tick, configured, store, reached, lifetime, probe, tokenizer, page, conn>>

Next ==
  \/ Tick
  \/ \E p \in Procs :
       \/ Begin(p)
       \/ Check(p)
       \/ ExceededJson(p)
       \/ BadRequest(p)
       \/ RemoteFails(p)
       \/ RemoteReplies(p)
       \/ Exec(p)
       \/ ExecNull(p)
       \/ Readback(p)

Spec == Init /\ [][Next]_vars

\* ------------------------------------------- direct calls of the library
\* the reference times and totals the library's functions are called with:
\* 2023-02-28, 2024-02-29, 2024-12-31 and 2025-01-01, at midnight, around
\* the second boundaries and just before the next midnight
ProbeDays == {19416, 19782, 20088, 20089}
ProbeMs ==
  {0, 1, 500, 999, 1000, 36000500, 86398999, 86399000, 86399001, 86399999}
ProbeUsed == {0, 100, 2499999, 2500000, 2600000}

InitCalls ==
  /\ Untouched
  /\ tick = 1
  /\ configured = TRUE
  /\ faults = 0
  /\ store = EmptyStore
  /\ rq = [p \in Procs |-> IdleRequest]
  /\ reached = {}
  /\ lifetime = [d \in DayKeys |-> NoLifetime]
  /\ \E d \in ProbeDays, m \in ProbeMs, u \in ProbeUsed :
       probe = [NoProbe EXCEPT !.now = Date(d, m), !.used = u]

\* toQuotaStatus(used, now), as getQuotaStatus and incrementQuota return it
CallToQuotaStatus ==
  /\ probe.status = NoStatus
  /\ probe' = [probe EXCEPT !.status = toQuotaStatus(probe.used, probe.now)]
  /\ UNCHANGED <<tick, configured, faults, store, rq, reached, lifetime, tokenizer, page, conn>>

\* secondsUntilNextUtcMidnight(now), the expireSeconds of incrementUsage
CallSecondsUntilNextUtcMidnight ==
  /\ probe.ttl = 0
  /\ probe' = [probe EXCEPT !.ttl = secondsUntilNextUtcMidnight(probe.now)]
  /\ UNCHANGED <<tick, configured, faults, store, rq, reached, lifetime, tokenizer, page, conn>>

NextCalls ==
  \/ CallToQuotaStatus
  \/ CallSecondsUntilNextUtcMidnight

SpecCalls == InitCalls /\ [][NextCalls]_vars

\* ------------------------------------------ direct calls of RedisQuotaStore
MaxCalls == 3

\* meta.tokens: 100, 50, 0.4, 2.5, -7, 0, NaN, +Infinity
Deltas ==
  { Num(1000), Num(500), Num(4), Num(25), Num(-70), Num(0),
    [k |-> "nan", v |-> 0], [k |-> "inf", v |-> 1] }

\* what the deltas of a call should add: nothing when negative, zero or
\* not finite, else the nearest integer
ExpectedDelta(tokens) ==
  IF tokens.k = "num" /\ tokens.v > 0 THEN (tokens.v + 5) \div 10 ELSE 0

\* store.incrementUsage(dateKey, {model, tokens, timestamp}) on the day key
\* of the clock, from the transaction to the returned total
CallIncrementUsage ==
  /\ configured
  /\ probe.calls < MaxCalls
  /\ \E tokens \in Deltas, model \in {"", "gpt-5-mini"} :
       LET d == currentDateKey(clock)
           after == Transaction(store, d, normaliseTokens(tokens), model,
                                secondsUntilNextUtcMidnight(clock), clock)
           total == RedisGet(after, composeKey(d, "total"))
           before == IF store[composeKey(d, "total")].present
                       THEN probe.sum[d] ELSE 0
       IN  /\ store' = after
           /\ probe' = [probe EXCEPT
                          !.calls = @ + 1, !.op = "incrementUsage",
                          !.key = d, !.at = tick,
                          !.ret = IF total.nil THEN 0 ELSE total.val,
                          !.sum[d] = before + ExpectedDelta(tokens),
                          !.tokens = normaliseTokens(tokens),
                          !.model = model,
                          !.bare[d] = @ \/ (model = "" /\ normaliseTokens(tokens) > 0),
                          !.variant = "none", !.fault = "none",
                          !.result = "none", !.resp = NoProbe.resp]
  /\ UNCHANGED <<tick, configured, faults, rq, reached, lifetime, tokenizer, page, conn>>

\* the same call made at the instant of the clock or 450 ms after it (not
\* before the call made last, and before the next instant of the clock),
\* with tokens 100 or 0
CallOffsets == {0, 450}

LaterDeltas == {Num(1000), Num(0)}

OffsetAllowed(o) ==
  /\ o >= (IF probe.offsetTick = tick THEN probe.offset ELSE 0)
  /\ \/ o = 0
     \/ /\ tick < Len(Times)
        /\ DateLE(AddMs(clock, o), Times[tick + 1])
        /\ AddMs(clock, o) # Times[tick + 1]

CallIncrementUsageLater ==
  /\ configured
  /\ probe.calls < MaxCalls
  /\ \E tokens \in LaterDeltas, model \in {"", "gpt-5-mini"},
        o \in CallOffsets :
       LET now == AddMs(clock, o)
           d == currentDateKey(now)
           after == Transaction(store, d, normaliseTokens(tokens), model,
                                secondsUntilNextUtcMidnight(now), now)
           total == RedisGet(after, composeKey(d, "total"))
           before == IF store[composeKey(d, "total")].present
                       THEN probe.sum[d] ELSE 0
       IN  /\ OffsetAllowed(o)
           /\ store' = after
           /\ probe' = [probe EXCEPT
                          !.offset = o, !.offsetTick = tick,
                          !.calls = @ + 1, !.op = "incrementUsage",
                          !.key = d, !.at = tick,
                          !.ret = IF total.nil THEN 0 ELSE total.val,
                          !.sum[d] = before + ExpectedDelta(tokens),
                          !.tokens = normaliseTokens(tokens),
                          !.model = model,
                          !.bare[d] = @ \/ (model = "" /\ normaliseTokens(tokens) > 0),
                          !.variant = "none", !.fault = "none",
                          !.result = "none", !.resp = NoProbe.resp]
  /\ UNCHANGED <<tick, configured, faults, rq, reached, lifetime, tokenizer, page, conn>>

\* store.getUsage(dateKey)
CallGetUsage ==
  /\ configured
  /\ \E d \in DayKeys :
       probe' = [probe EXCEPT !.op = "getUsage", !.key = d, !.at = tick,
                              !.ret = getUsage(store, d),
                              !.variant = "none", !.fault = "none",
                              !.result = "none", !.resp = NoProbe.resp]
  /\ UNCHANGED <<tick, configured, faults, store, rq, reached, lifetime, tokenizer, page, conn>>

\* ------------------------------------------------------------ GET /api/quota
\* what a call of getQuotaStatus gives: a status, null (with the disabled
\* reason noted) or a thrown error (with its class)
QuotaResult(kind, reason, status) ==
  [kind |-> kind, reason |-> reason, status |-> status]

\* a getQuotaStatus that answers an empty day when there is no client
getQuotaStatus_ZeroOnFailure(f, s, now) ==
  LET g == getRedisClient(f)
  IN  IF ~g.ok
        THEN QuotaResult("status", "null", toQuotaStatus(0, now))
      ELSE IF CommandRejects(f)
        THEN QuotaResult("threw", "Error", NoStatus)
      ELSE QuotaResult("status", "null",
                       toQuotaStatus(getUsage(s, currentDateKey(now)), now))

\* getQuotaStatus(now) of the library that returns null without a client
getQuotaStatus(f, s, now) ==
  LET g == getRedisClient(f)
  IN  IF ~g.ok
        THEN QuotaResult("null", g.reason, NoStatus)
      ELSE IF CommandRejects(f)   \* client.get rejects
        THEN QuotaResult("threw", "Error", NoStatus)
      ELSE QuotaResult("status", "null",
                       toQuotaStatus(getUsage(s, currentDateKey(now)), now))

\* getQuotaStatus(now) of the library whose getRedisClient throws
\* RedisUnavailableError
strictGetQuotaStatus(f, s, now) ==
  LET g == getRedisClient(f)
  IN  IF ~g.ok
        THEN QuotaResult("threw", "RedisUnavailableError", NoStatus)
      ELSE IF CommandRejects(f)   \* client.get rejects
        THEN QuotaResult("threw", "Error", NoStatus)
      ELSE QuotaResult("status", "null",
                       toQuotaStatus(getUsage(s, currentDateKey(now)), now))

QuotaResp(st, err, enabled, message, q) ==
  [status |-> st, error |-> err, enabled |-> enabled, message |-> message,
   quota |-> q]

\* GET of the route that tests the result for null; a rejection of
\* getQuotaStatus escapes the handler
QuotaGET(r) ==
  IF r.kind = "null"
    THEN QuotaResp(200, "", "false", r.reason, NoStatus)
  ELSE IF r.kind = "threw"
    THEN QuotaResp(500, "unhandled", "absent", "", NoStatus)
  ELSE QuotaResp(200, "", "true", "", r.status)

\* GET of the route that catches RedisUnavailableError
strictQuotaGET(r) ==
  IF r.kind = "threw" /\ r.reason = "RedisUnavailableError"
    THEN QuotaResp(503, "redis_unavailable", "absent", r.reason, NoStatus)
  ELSE IF r.kind = "threw"
    THEN QuotaResp(500, "quota_read_failed", "absent", "", NoStatus)
  ELSE QuotaResp(200, "", "absent", "", r.status)

\* one GET /api/quota, served by either variant of route and library
GetQuota ==
  /\ \E f \in Faults, variant \in {"lenient", "strict"} :
       /\ FaultAllowed(f)
       /\ faults' = FaultCount(f)
       /\ LET r == IF variant = "strict"
                     THEN strictGetQuotaStatus(f, store, clock)
                     ELSE getQuotaStatus(f, store, clock)
          IN  probe' = [probe EXCEPT
                          !.op = "GET", !.at = tick, !.variant = variant,
                          !.key = NoDayKey, !.ret = 0,
                          !.fault = IF ~configured THEN "unconfigured" ELSE f,
                          !.result = r.kind,
                          !.resp = IF variant = "strict"
                                     THEN strictQuotaGET(r) ELSE QuotaGET(r)]
  /\ UNCHANGED <<tick, configured, store, rq, reached, lifetime, tokenizer, page, conn>>

\* ----------------------------------------------------------- incrementQuota
\* how the Redis operations of one incrementQuota can go: as in Faults, or
\* "aborted" (multi.exec() resolves to null)
WriteFaults == Faults \cup {"aborted"}

\* meta.tokens of the incrementQuota calls: 100, 50
MetaTokens == {Num(1000), Num(500)}

\* what a call of incrementQuota gives: the status it returns or the error
\* it throws, and the keys of the server after it
WriteResult(kind, reason, status, s) ==
  [kind |-> kind, reason |-> reason, status |-> status, store |-> s]

\* an incrementQuota that counts in the process when there is no client
incrementQuota_LocalFallback(f, s, tokens, model, timestamp, at) ==
  LET g == getRedisClient(f)
      dateKey == currentDateKey(timestamp)
      after == Transaction(s, dateKey, normaliseTokens(tokens), model,
                           secondsUntilNextUtcMidnight(timestamp), at)
  IN  IF ~g.ok
        THEN WriteResult("status", "memory",
                         toQuotaStatus(normaliseTokens(tokens), timestamp), s)
      ELSE IF CommandRejects(f)
        THEN WriteResult("threw", "Error", NoStatus, s)
      ELSE IF f = "aborted"
        THEN WriteResult("threw", "Error", NoStatus, s)
      ELSE WriteResult("status", "null",
                       toQuotaStatus(getUsage(after, dateKey), timestamp),
                       after)

\* incrementQuota(meta) of the library that throws QuotaDisabledError
\* without a client; the transaction is applied at server time `at`
incrementQuota(f, s, tokens, model, timestamp, at) ==
  LET g == getRedisClient(f)
      dateKey == currentDateKey(timestamp)
      expireSeconds == secondsUntilNextUtcMidnight(timestamp)
      after == Transaction(s, dateKey, normaliseTokens(tokens), model,
                           expireSeconds, at)
  IN  IF ~g.ok
        THEN WriteResult("threw", "QuotaDisabledError", NoStatus, s)
      ELSE IF CommandRejects(f)   \* multi.exec rejects
        THEN WriteResult("threw", "Error", NoStatus, s)
      ELSE IF f = "aborted"
        THEN WriteResult("threw", "Error", NoStatus,
                         TransactionAborted(s, dateKey, normaliseTokens(tokens),
                                            model, expireSeconds, at))
      ELSE WriteResult("status", "null",
                       toQuotaStatus(getUsage(after, dateKey), timestamp),
                       after)

\* incrementQuota(meta) of the library whose getRedisClient throws
\* RedisUnavailableError
strictIncrementQuota(f, s, tokens, model, timestamp, at) ==
  LET r == incrementQuota(f, s, tokens, model, timestamp, at)
  IN  IF r.kind = "threw" /\ r.reason = "QuotaDisabledError"
        THEN [r EXCEPT !.reason = "RedisUnavailableError"]
        ELSE r

\* one call of incrementQuota({model, tokens, timestamp}) with the clock as
\* timestamp, on either variant of the library
CallIncrementQuota ==
  /\ probe.calls < MaxCalls
  /\ \E f \in WriteFaults, variant \in {"lenient", "strict"},
        tokens \in MetaTokens, model \in {"gpt-5-mini"} :
       /\ FaultAllowed(f)
       /\ faults' = FaultCount(f)
       /\ \E r \in { IF variant = "strict"
                       THEN strictIncrementQuota(f, store, tokens, model,
                                                 clock, clock)
                       ELSE incrementQuota(f, store, tokens, model,
                                           clock, clock) } :
            LET d == currentDateKey(clock)
                before == IF store[composeKey(d, "total")].present
                            THEN probe.sum[d] ELSE 0
            IN  /\ store' = r.store
                /\ probe' = [probe EXCEPT
                               !.calls = @ + 1, !.op = "incrementQuota",
                               !.key = d, !.at = tick,
                               !.ret = IF r.kind = "status"
                                         THEN r.status.used ELSE 0,
                               !.sum[d] = IF r.kind = "status"
                                            THEN before + ExpectedDelta(tokens)
                                            ELSE @,
                               !.variant = variant,
                               !.fault = IF ~configured THEN "unconfigured"
                                                        ELSE f,
                               !.result = r.kind,
                               !.resp = QuotaResp(0, r.reason, "absent", "",
                                                  r.status)]
  /\ UNCHANGED <<tick, configured, rq, reached, lifetime, tokenizer, page, conn>>

InitLedger ==
  /\ Untouched
  /\ tick = 1
  /\ configured \in BOOLEAN
  /\ faults = 0
  /\ store = EmptyStore
  /\ rq = [p \in Procs |-> IdleRequest]
  /\ reached = {}
  /\ lifetime = [d \in DayKeys |-> NoLifetime]
  /\ probe = NoProbe

NextLedger ==
  \/ Tick
  \/ CallIncrementUsage
  \/ CallGetUsage

SpecLedger == InitLedger /\ [][NextLedger]_vars

NextHistogram ==
  \/ Tick
  \/ CallIncrementUsageLater
  \/ CallGetUsage

SpecHistogram == InitLedger /\ [][NextHistogram]_vars

\* the calls of the library's exported functions alone
NextLibrary ==
  \/ Tick
  \/ GetQuota
  \/ CallIncrementQuota

SpecLibrary == InitLedger /\ [][NextLibrary]_vars

\* ------------------------------------------ direct calls of the estimator
\* the texts: empty, white space only, and bodies of 1, 4, 53, 54, 64 and
\* 240 characters, some between white space
EstimateTexts ==
  { Text(0, 0, 0), Text(3, 0, 0), Text(0, 1, 0), Text(1, 4, 2),
    Text(0, 53, 0), Text(0, 54, 0), Text(0, 64, 1), Text(0, 240, 0) }

\* the image sides in tenths of a pixel: -5, 0, 0.5, 512.7, 1280, 4096,
\* 8192 and 65535
ImageSides == {-50, 0, 5, 5127, 12800, 40960, 81920, 655350}
Details == {"low", "high", "auto"}

\* encoders of one character and of four characters to the token
Encoders == {Encoder(75, 48, 1), Encoder(60, 40, 4)}

InitEstimate ==
  /\ Untouched
  /\ tick = 1
  /\ configured = TRUE
  /\ faults = 0
  /\ store = EmptyStore
  /\ rq = [p \in Procs |-> IdleRequest]
  /\ reached = {}
  /\ lifetime = [d \in DayKeys |-> NoLifetime]
  /\ \E ready \in BOOLEAN, enc \in Encoders, model \in SUPPORTED_MODELS,
        sourceLang \in {"auto", "en"} :
       \/ \E module \in {"text", "image"}, text \in EstimateTexts :
            probe = [NoProbe EXCEPT
                       !.est = [NoEstimateCall EXCEPT
                                  !.module = module, !.ready = ready,
                                  !.enc = enc, !.text = text,
                                  !.model = model, !.sourceLang = sourceLang]]
       \/ \E w \in ImageSides, h \in ImageSides, detail \in Details :
            probe = [NoProbe EXCEPT
                       !.est = [NoEstimateCall EXCEPT
                                  !.module = "image", !.ready = ready,
                                  !.enc = enc, !.image = Image(w, h, detail),
                                  !.model = model, !.sourceLang = sourceLang]]

\* estimateTranslationTokenUsage(params) of either module, to the settling
\* of the promise it returns
CallEstimateTranslationTokenUsage ==
  /\ probe.est.called = {}
  /\ LET e == probe.est
     IN  probe' = [probe EXCEPT
           !.est.called = {"estimateTranslationTokenUsage"},
           !.est.result =
              IF e.module = "text"
                THEN textEstimateTranslationTokenUsage(
                       e.ready, e.enc, e.text, e.sourceLang)
                ELSE estimateTranslationTokenUsage(
                       e.ready, e.enc, e.text, e.image, e.model,
                       e.sourceLang)]
  /\ UNCHANGED <<tick, configured, faults, store, rq, reached, lifetime,
                 tokenizer, page, conn>>

\* estimateImageTokens(model, width, height, detail)
CallEstimateImageTokens ==
  /\ probe.est.called = {}
  /\ probe.est.image # NoImage
  /\ LET e == probe.est
     IN  probe' = [probe EXCEPT
           !.est.called = {"estimateImageTokens"},
           !.est.imageTokens =
              estimateImageTokens(e.model, e.image.width, e.image.height,
                                  e.image.detail)]
  /\ UNCHANGED <<tick, configured, faults, store, rq, reached, lifetime,
                 tokenizer, page, conn>>

\* fallbackCharacterEstimate(text)
CallFallbackCharacterEstimate ==
  /\ probe.est.called = {}
  /\ probe.est.image = NoImage
  /\ probe' = [probe EXCEPT
       !.est.called = {"fallbackCharacterEstimate"},
       !.est.fallback = fallbackCharacterEstimate(probe.est.text)]
  /\ UNCHANGED <<tick, configured, faults, store, rq, reached, lifetime,
                 tokenizer, page, conn>>

NextEstimate ==
  \/ CallEstimateTranslationTokenUsage
  \/ CallEstimateImageTokens
  \/ CallFallbackCharacterEstimate

SpecEstimate == InitEstimate /\ [][NextEstimate]_vars

\* --------------------------------------------------------------------- Home
MaxEdits == 3

\* what the user types: nothing, "abcd", "abcd " and a text of 240
\* characters; the picture chosen: 512 by 512 pixels
PageTexts == {EmptyText, Text(0, 4, 0), Text(0, 4, 1), Text(0, 240, 0)}
PageImages == {Image(5120, 5120, "high")}
\* the remaining tokens the server reports
Remainings == {0, 50, 200, 30000}
\* the encoder the browser loads
PageEncoder == Encoder(60, 40, 4)

isImageMode(pg) == pg.image # NoImage
trimmedSourceText(pg) == Trim(pg.sourceText)

\* the effect on [trimmedSourceText]: the cleanup clears the timer; an empty
\* text is taken over at once, any other after 300 ms
DebounceEffect(pg) ==
  IF Length(trimmedSourceText(pg)) = 0
    THEN [pg EXCEPT !.timer = NoTimer, !.debouncedSourceText = EmptyText]
    ELSE [pg EXCEPT !.timer = [set |-> TRUE, text |-> trimmedSourceText(pg)]]

\* the effect on [debouncedSourceText, isImageMode, imageInfo, model, ...]:
\* the cleanup of the earlier run clears its `active`; then the estimate is
\* zeroed (no input) or a new estimation starts
EstimateEffect(pg) ==
  LET stale == {[c EXCEPT !.active = FALSE] : c \in pg.calls}
      call  == [ text   |-> IF isImageMode(pg) THEN EmptyText
                                                ELSE pg.debouncedSourceText,
                 image  |-> pg.image, model |-> pg.model, active |-> TRUE ]
  IN  IF ~isImageMode(pg) /\ Length(pg.debouncedSourceText) = 0
        THEN [pg EXCEPT !.calls = stale, !.estimatedTokens = 0,
                        !.tokenEstimateError = "null",
                        !.isEstimatingTokens = FALSE]
        ELSE [pg EXCEPT !.calls = stale \cup {call},
                        !.isEstimatingTokens = TRUE,
                        !.tokenEstimateError = "null"]

\* the effects React runs after the state went from `old` to `new`
AfterRender(old, new) ==
  LET n == [new EXCEPT !.settled = "none"]
      a == IF trimmedSourceText(n) # trimmedSourceText(old)
             THEN DebounceEffect(n) ELSE n
  IN  IF <<a.debouncedSourceText, a.image, a.model>>
           # <<old.debouncedSourceText, old.image, old.model>>
        THEN EstimateEffect(a) ELSE a

quotaExceeded(pg) == pg.quota.known /\ pg.quota.remaining <= 0

\* the estimate NaN compares false with everything
estimatedOverLimit(pg) ==
  /\ pg.quota.known
  /\ pg.estimatedTokens # NaNTokens
  /\ pg.estimatedTokens > pg.quota.remaining

hasInput(pg) == isImageMode(pg) \/ Length(trimmedSourceText(pg)) > 0

translateDisabled(pg) ==
  \/ pg.isLoading
  \/ ~hasInput(pg)
  \/ quotaExceeded(pg)
  \/ ~pg.redisReady
  \/ estimatedOverLimit(pg)
  \/ pg.isEstimatingTokens

\* the textarea's onChange
TypeText ==
  /\ ~isImageMode(page)
  /\ page.edits < MaxEdits
  /\ \E t \in PageTexts \ {page.sourceText} :
       page' = AfterRender(page, [page EXCEPT !.sourceText = t,
                                              !.edits = @ + 1])
  /\ UNCHANGED <<tick, configured, faults, store, rq, reached, lifetime,
                 probe, tokenizer, conn>>

\* the model selector: two patch-based models and a tile-based one
PageModels == {"gpt-5-mini", "gpt-5-nano", "gpt-4o-mini"}

SelectModel ==
  /\ page.edits < MaxEdits
  /\ \E m \in PageModels \ {page.model} :
       page' = AfterRender(page, [page EXCEPT !.model = m, !.edits = @ + 1])
  /\ UNCHANGED <<tick, configured, faults, store, rq, reached, lifetime,
                 probe, tokenizer, conn>>

\* img.onload of a chosen file
SelectImage ==
  /\ ~page.isLoading
  /\ page.edits < MaxEdits
  /\ \E i \in PageImages :
       page' = AfterRender(page, [page EXCEPT !.image = i,
                                              !.sourceText = EmptyText,
                                              !.edits = @ + 1])
  /\ UNCHANGED <<tick, configured, faults, store, rq, reached, lifetime,
                 probe, tokenizer, conn>>

\* the button that removes the image
RemoveImage ==
  /\ isImageMode(page)
  /\ ~page.isLoading
  /\ page.edits < MaxEdits
  /\ page' = AfterRender(page, [page EXCEPT !.image = NoImage,
                                            !.edits = @ + 1])
  /\ UNCHANGED <<tick, configured, faults, store, rq, reached, lifetime,
                 probe, tokenizer, conn>>

\* the debounce timer fires, 300 ms after the last change of the text
DebounceFires ==
  /\ page.timer.set
  /\ page' = AfterRender(page, [page EXCEPT
                                  !.debouncedSourceText = page.timer.text,
                                  !.timer = NoTimer])
  /\ UNCHANGED <<tick, configured, faults, store, rq, reached, lifetime,
                 probe, tokenizer, conn>>

\* the handlers an effect run puts on its promise, with fallbackText the
\* debouncedSourceText of that run
\* the handlers without the test of `active`
AfterEstimate_NoActiveTest(pg, c, r) ==
  IF r.kind = "fulfilled"
    THEN [pg EXCEPT !.estimatedTokens = r.est.totalTokens,
                    !.tokenEstimateError = "null",
                    !.isEstimatingTokens = FALSE, !.settled = "fulfilled"]
  ELSE IF c.image # NoImage
    THEN [pg EXCEPT !.estimatedTokens = 0,
                    !.tokenEstimateError = "failed",
                    !.isEstimatingTokens = FALSE, !.settled = "rejected"]
  ELSE [pg EXCEPT !.estimatedTokens = fallbackCharacterEstimate(c.text),
                  !.tokenEstimateError = "approximated",
                  !.isEstimatingTokens = FALSE, !.settled = "rejected"]

AfterEstimate(pg, c, r) ==
  IF ~c.active THEN [pg EXCEPT !.settled = "stale"]
  ELSE IF r.kind = "fulfilled"
    THEN [pg EXCEPT !.estimatedTokens = r.est.totalTokens,
                    !.tokenEstimateError = "null",
                    !.isEstimatingTokens = FALSE, !.settled = "fulfilled"]
  ELSE IF c.image # NoImage
    THEN [pg EXCEPT !.estimatedTokens = 0,
                    !.tokenEstimateError = "failed",
                    !.isEstimatingTokens = FALSE, !.settled = "rejected"]
  ELSE [pg EXCEPT !.estimatedTokens = fallbackCharacterEstimate(c.text),
                  !.tokenEstimateError = "approximated",
                  !.isEstimatingTokens = FALSE, !.settled = "rejected"]

\* a promise of estimateTranslationTokenUsage settles: fulfilled when the
\* tokenizer could be loaded, rejected when not
EstimateSettles ==
  /\ \E c \in page.calls, ready \in BOOLEAN :
       \E r \in { estimateTranslationTokenUsage(
                    ready, PageEncoder, c.text, c.image, c.model, "auto") } :
         page' = AfterEstimate([page EXCEPT !.calls = @ \ {c}], c, r)
  /\ UNCHANGED <<tick, configured, faults, store, rq, reached, lifetime,
                 probe, tokenizer, conn>>

\* fetchQuota() ends: a quota, enabled: false, or a failure
QuotaArrives ==
  /\ \/ \E r \in Remainings :
          page' = [page EXCEPT !.quota = [known |-> TRUE, remaining |-> r],
                               !.redisReady = TRUE, !.settled = "none"]
     \/ page' = [page EXCEPT !.quota = NoQuotaInfo, !.redisReady = FALSE,
                              !.settled = "none"]
     \/ page' = [page EXCEPT !.redisReady = FALSE, !.settled = "none"]
  /\ UNCHANGED <<tick, configured, faults, store, rq, reached, lifetime,
                 probe, tokenizer, conn>>

\* a click on the translate button: handleTranslate up to the fetch of
\* /api/translate, which carries sourceText or the image
ClickTranslate ==
  /\ ~translateDisabled(page)
  /\ hasInput(page)
  /\ ~page.isEstimatingTokens
  /\ ~estimatedOverLimit(page)
  /\ page' = [page EXCEPT
                !.isLoading = TRUE, !.settled = "none",
                !.sent = [ count |-> 1, text |-> page.sourceText,
                           image |-> page.image,
                           debounced |-> page.debouncedSourceText,
                           shown |-> page.estimatedTokens,
                           estimating |-> page.isEstimatingTokens,
                           quota |-> page.quota ]]
  /\ UNCHANGED <<tick, configured, faults, store, rq, reached, lifetime,
                 probe, tokenizer, conn>>

\* the response of /api/translate has been read to its end
TranslateEnds ==
  /\ page.isLoading
  /\ \/ \E r \in Remainings :
          page' = [page EXCEPT !.isLoading = FALSE,
                               !.quota = [known |-> TRUE, remaining |-> r],
                               !.redisReady = TRUE, !.settled = "none"]
     \/ page' = [page EXCEPT !.isLoading = FALSE, !.settled = "none"]
     \/ page' = [page EXCEPT !.isLoading = FALSE, !.redisReady = FALSE,
                              !.settled = "none"]
  /\ UNCHANGED <<tick, configured, faults, store, rq, reached, lifetime,
                 probe, tokenizer, conn>>

InitPage ==
  /\ Untouched
  /\ tick = 1
  /\ configured = TRUE
  /\ faults = 0
  /\ store = EmptyStore
  /\ rq = [p \in Procs |-> IdleRequest]
  /\ reached = {}
  /\ lifetime = [d \in DayKeys |-> NoLifetime]
  /\ probe = NoProbe

NextPage ==
  \/ TypeText
  \/ SelectImage
  \/ RemoveImage
  \/ DebounceFires
  \/ EstimateSettles
  \/ QuotaArrives
  \/ ClickTranslate
  \/ TranslateEnds

SpecPage == InitPage /\ [][NextPage]_vars

\* the inputs of the estimation effect and its promises, with the model
\* selector in use
NextSelection ==
  \/ TypeText
  \/ SelectModel
  \/ SelectImage
  \/ RemoveImage
  \/ DebounceFires
  \/ EstimateSettles

SpecSelection == InitPage /\ [][NextSelection]_vars

\* -------------------------------------------- getRedisClient, step by step
\* The calls of getRedisClient of one server instance, interleaved at their
\* awaits.  A call runs from one await to the next without interruption.
isOpen(cn, c) == cn.clients[c] \in {"connecting", "ready"}

OpenClients(cn) == {c \in Clients : isOpen(cn, c)}

markQuotaDisabled(cn, reason) == [cn EXCEPT !.reason = reason]

markQuotaEnabled(cn) == [cn EXCEPT !.reason = "null"]

\* the call of p returns (or throws): what it gave and the reason then
Returns(cn, p, outcome, ret) ==
  [cn EXCEPT !.call[p].pc = "idle",
             !.call[p].outcome = outcome,
             !.call[p].ret = ret,
             !.call[p].reasonAtReturn = cn.reason]

\* the call of p goes on to the await named pc, on client c
Awaits(cn, p, pc, c) ==
  [cn EXCEPT !.call[p].pc = pc, !.call[p].client = c]

\* the first client not made yet
NextClient(cn) ==
  CHOOSE c \in Clients :
    /\ cn.clients[c] = "unmade"
    /\ \A d \in Clients : d < c => cn.clients[d] # "unmade"

\* getRedisClient up to its first await or its return (the lenient library)
enterGetRedisClient_NoReconnect(cn, p) ==
  IF ~configured
    THEN Returns(markQuotaDisabled(cn, "REDIS_URL"), p, "null", 0)
  ELSE IF cn.slot # 0 /\ isOpen(cn, cn.slot)
    THEN Returns(markQuotaEnabled(cn), p, "client", cn.slot)
  ELSE IF cn.slot # 0
    THEN Awaits([cn EXCEPT !.slot = 0, !.call[p].foundClosed = TRUE],
                p, "importing", 0)
  ELSE Awaits(cn, p, "importing", 0)

enterGetRedisClient(cn, p) ==
  IF ~configured
    THEN Returns(markQuotaDisabled(cn, "REDIS_URL"), p, "null", 0)
  ELSE IF cn.slot # 0 /\ isOpen(cn, cn.slot)
    THEN Returns(markQuotaEnabled(cn), p, "client", cn.slot)
  ELSE IF cn.slot # 0
    \* connect() is called on the closed client: it is open from now on
    THEN Awaits([cn EXCEPT !.clients[cn.slot] = "connecting",
                           !.call[p].foundClosed = TRUE],
                p, "reconnecting", cn.slot)
  ELSE Awaits(cn, p, "importing", 0)

\* the same of the strict library: the client of the slot is returned as
\* it is, closed or not
strictEnterGetRedisClient(cn, p) ==
  IF ~configured
    THEN Returns(cn, p, "threw", 0)
  ELSE IF cn.slot # 0
    THEN Returns(cn, p, "client", cn.slot)
  ELSE Awaits(cn, p, "importing", 0)

EnterGetRedisClient(p) ==
  /\ conn.call[p].pc = "idle"
  /\ conn.enters < MaxEnters
  /\ LET cn == [conn EXCEPT !.enters = @ + 1, !.call[p] = IdleCall]
     IN conn' = IF conn.library = "strict"
                  THEN strictEnterGetRedisClient(cn, p)
                  ELSE enterGetRedisClient(cn, p)
  /\ UNCHANGED <<tick, configured, faults, store, rq, reached, lifetime,
                 probe, tokenizer, page>>

\* await globalForQuota.__redisClient.connect() resolves: the slot is read
\* again for the value returned
afterReconnect(cn, p) ==
  LET c == cn.call[p].client
      on == markQuotaEnabled([cn EXCEPT !.clients[c] = "ready"])
  IN Returns(on, p, IF on.slot = 0 THEN "undefined" ELSE "client", on.slot)

ReconnectResolves(p) ==
  /\ conn.call[p].pc = "reconnecting"
  /\ conn' = afterReconnect(conn, p)
  /\ UNCHANGED <<tick, configured, faults, store, rq, reached, lifetime,
                 probe, tokenizer, page>>

\* it rejects: disconnect() is called on the client and awaited
ReconnectRejects(p) ==
  /\ conn.call[p].pc = "reconnecting"
  /\ conn' = [conn EXCEPT !.clients[conn.call[p].client] = "closed",
                          !.call[p].pc = "disconnecting",
                          !.call[p].reconnectFailed = TRUE]
  /\ UNCHANGED <<tick, configured, faults, store, rq, reached, lifetime,
                 probe, tokenizer, page>>

\* the slot is emptied whatever it holds by now
dropClient(cn, p) ==
  Awaits(markQuotaDisabled([cn EXCEPT !.slot = 0], "reconnect_failed"),
         p, "importing", 0)

DisconnectEnds(p) ==
  /\ conn.call[p].pc = "disconnecting"
  /\ conn' = dropClient(conn, p)
  /\ UNCHANGED <<tick, configured, faults, store, rq, reached, lifetime,
                 probe, tokenizer, page>>

\* await import("redis") ends: createClient, then client.connect()
createClient(cn, p) ==
  LET c == NextClient(cn)
  IN Awaits([cn EXCEPT !.clients[c] = "connecting",
                       !.call[p].created = TRUE],
            p, "connecting", c)

ImportEnds(p) ==
  /\ conn.call[p].pc = "importing"
  /\ conn' = createClient(conn, p)
  /\ UNCHANGED <<tick, configured, faults, store, rq, reached, lifetime,
                 probe, tokenizer, page>>

\* await client.connect() resolves: the client is put in the slot
afterConnect(cn, p) ==
  LET c == cn.call[p].client
      set == [cn EXCEPT !.clients[c] = "ready", !.slot = c]
  IN Returns(IF cn.library = "strict" THEN set ELSE markQuotaEnabled(set),
             p, "client", c)

ConnectResolves(p) ==
  /\ conn.call[p].pc = "connecting"
  /\ conn' = afterConnect(conn, p)
  /\ UNCHANGED <<tick, configured, faults, store, rq, reached, lifetime,
                 probe, tokenizer, page>>

\* it rejects: null and the reason (lenient), RedisUnavailableError (strict)
afterConnectFailure(cn, p) ==
  LET off == [cn EXCEPT !.clients[cn.call[p].client] = "closed"]
  IN IF cn.library = "strict"
       THEN Returns(off, p, "threw", 0)
       ELSE Returns(markQuotaDisabled(off, "connect_failed"), p, "null", 0)

ConnectRejects(p) ==
  /\ conn.call[p].pc = "connecting"
  /\ conn' = afterConnectFailure(conn, p)
  /\ UNCHANGED <<tick, configured, faults, store, rq, reached, lifetime,
                 probe, tokenizer, page>>

\* the connection of a client is lost for good: isOpen is false from now on
ClientCloses ==
  /\ \E c \in Clients :
       /\ conn.clients[c] = "ready"
       /\ conn' = [conn EXCEPT !.clients[c] = "closed"]
  /\ UNCHANGED <<tick, configured, faults, store, rq, reached, lifetime,
                 probe, tokenizer, page>>

InitClient ==
  /\ tokenizer = NoTokenizer
  /\ page = NoPage
  /\ \E l \in {"lenient", "strict"} : conn = [NoConn EXCEPT !.library = l]
  /\ tick = 1
  /\ configured \in BOOLEAN
  /\ faults = 0
  /\ store = EmptyStore
  /\ rq = [p \in Procs |-> IdleRequest]
  /\ reached = {}
  /\ lifetime = [d \in DayKeys |-> NoLifetime]
  /\ probe = NoProbe

NextClientStep ==
  \/ \E p \in Procs : EnterGetRedisClient(p)
  \/ \E p \in Procs : ReconnectResolves(p)
  \/ \E p \in Procs : ReconnectRejects(p)
  \/ \E p \in Procs : DisconnectEnds(p)
  \/ \E p \in Procs : ImportEnds(p)
  \/ \E p \in Procs : ConnectResolves(p)
  \/ \E p \in Procs : ConnectRejects(p)
  \/ ClientCloses

SpecClient == InitClient /\ [][NextClientStep]_vars

\* ------------------------------------------------ getEncoder, step by step
\* The calls of getEncoder of one page, interleaved at their awaits.
\* ensureWasmReady: the first call invokes init and keeps its promise
ensureWasmReady(tk) ==
  IF tk.wasmInitPromise = "null"
    THEN [tk EXCEPT !.wasmInitPromise = "pending", !.inits = @ + 1]
    ELSE tk

\* getEncoder up to `await ensureWasmReady()`
EnterGetEncoder(p) ==
  /\ tokenizer.call[p].pc = "idle"
  /\ tokenizer.starts < MaxStarts
  /\ tokenizer' =
       [ensureWasmReady(tokenizer) EXCEPT
          !.starts = @ + 1,
          !.call[p] = [IdleEncoderCall EXCEPT !.pc = "awaitingWasm"]]
  /\ UNCHANGED <<tick, configured, faults, store, rq, reached, lifetime,
                 probe, page, conn>>

\* the promise of init settles: the WASM is fetched and instantiated, or not
InitSettles ==
  /\ tokenizer.wasmInitPromise = "pending"
  /\ \E r \in {"resolved", "rejected"} :
       tokenizer' = [tokenizer EXCEPT !.wasmInitPromise = r]
  /\ UNCHANGED <<tick, configured, faults, store, rq, reached, lifetime,
                 probe, page, conn>>

\* past the await: the cache is looked up, and on a miss load is called
afterWasmReady(tk, p) ==
  IF tk.wasmInitPromise = "rejected"
    THEN [tk EXCEPT !.call[p].pc = "idle", !.call[p].outcome = "rejected"]
  ELSE IF tk.encoderCache # 0
    THEN [tk EXCEPT !.call[p].pc = "idle",
                    !.call[p].outcome = "encoder",
                    !.call[p].encoder = tk.encoderCache]
  ELSE [tk EXCEPT !.call[p].pc = "loading", !.loads = @ + 1]

AfterWasmReady(p) ==
  /\ tokenizer.call[p].pc = "awaitingWasm"
  /\ tokenizer.wasmInitPromise \in {"resolved", "rejected"}
  /\ tokenizer' = afterWasmReady(tokenizer, p)
  /\ UNCHANGED <<tick, configured, faults, store, rq, reached, lifetime,
                 probe, page, conn>>

\* load resolves: a Tiktoken is made, put in the cache and returned
afterLoad(tk, p) ==
  [tk EXCEPT !.instances = @ + 1,
             !.encoderCache = tk.instances + 1,
             !.call[p].pc = "idle",
             !.call[p].outcome = "encoder",
             !.call[p].encoder = tk.instances + 1]

LoadResolves(p) ==
  /\ tokenizer.call[p].pc = "loading"
  /\ tokenizer' = afterLoad(tokenizer, p)
  /\ UNCHANGED <<tick, configured, faults, store, rq, reached, lifetime,
                 probe, page, conn>>

\* load rejects (the vocabulary cannot be fetched)
LoadRejects(p) ==
  /\ tokenizer.call[p].pc = "loading"
  /\ tokenizer' = [tokenizer EXCEPT !.call[p].pc = "idle",
                                    !.call[p].outcome = "rejected"]
  /\ UNCHANGED <<tick, configured, faults, store, rq, reached, lifetime,
                 probe, page, conn>>

InitTokenizer ==
  /\ Untouched
  /\ tick = 1
  /\ configured = TRUE
  /\ faults = 0
  /\ store = EmptyStore
  /\ rq = [p \in Procs |-> IdleRequest]
  /\ reached = {}
  /\ lifetime = [d \in DayKeys |-> NoLifetime]
  /\ probe = NoProbe

NextTokenizer ==
  \/ \E p \in Procs : EnterGetEncoder(p)
  \/ InitSettles
  \/ \E p \in Procs : AfterWasmReady(p)
  \/ \E p \in Procs : LoadResolves(p)
  \/ \E p \in Procs : LoadRejects(p)

SpecTokenizer == InitTokenizer /\ [][NextTokenizer]_vars

\* --------------------------------------- POST /api/translate, streaming
\* The start callback of the ReadableStream the streaming handler answers
\* with, from the moment openai.responses.stream has resolved.  A request
\* is r, its stream r.stream.
\* sendEvent: controller.enqueue, which throws on a closed stream
sendEvent(st, type) ==
  IF st.closed
    THEN [st EXCEPT !.threw = TRUE]
    ELSE [st EXCEPT !.events = Append(@, type)]

\* sendEvent then controller.close() and return
endWith(r, type) ==
  [r EXCEPT !.stream = [sendEvent(@, type) EXCEPT !.closed = TRUE],
            !.pc = "done"]

\* the quota check has admitted the request and the remote stream is open
OpenStream(p) ==
  /\ rq[p].pc = "idle"
  /\ \E model \in {"gpt-5-mini"} :
       rq' = [rq EXCEPT ![p] = [IdleRequest EXCEPT !.pc = "streaming",
                                                   !.now = clock,
                                                   !.model = model]]
  /\ UNCHANGED <<tick, configured, faults, store, reached, lifetime, probe,
                 tokenizer, page, conn>>

\* case "response.output_text.delta": an empty delta is not sent
onDelta(r, delta) ==
  IF delta = ""
    THEN r
    ELSE [r EXCEPT !.stream = sendEvent(
                     [@ EXCEPT !.aggregated =
                                 IF delta = "text" THEN "text"
                                 ELSE IF @ = "" THEN "blank" ELSE @],
                     "delta")]

RemoteDelta(p) ==
  /\ rq[p].pc = "streaming"
  /\ Len(rq[p].stream.events) < MaxDeltas
  /\ \E delta \in {"", "blank", "text"} :
       rq' = [rq EXCEPT ![p] = onDelta(rq[p], delta)]
  /\ UNCHANGED <<tick, configured, faults, store, reached, lifetime, probe,
                 tokenizer, page, conn>>

\* case "error" going on with the loop
onErrorEvent_NoReturn(r) ==
  [r EXCEPT !.stream = sendEvent(@, "error")]

\* case "error": sendEvent, abortStream, controller.close(), return
onErrorEvent(r) == endWith(r, "error")

RemoteError(p) ==
  /\ rq[p].pc = "streaming"
  /\ rq' = [rq EXCEPT ![p] = onErrorEvent(rq[p])]
  /\ UNCHANGED <<tick, configured, faults, store, reached, lifetime, probe,
                 tokenizer, page, conn>>

\* the iteration or finalResponse() rejects: the outer catch
RemoteThrows(p) ==
  /\ rq[p].pc = "streaming"
  /\ rq' = [rq EXCEPT ![p] = [endWith(rq[p], "error") EXCEPT !.remote = "threw"]]
  /\ UNCHANGED <<tick, configured, faults, store, reached, lifetime, probe,
                 tokenizer, page, conn>>

\* (aggregated || finalResponse.output_text || "").trim(), as a length
outputLength(aggregated, outLen) ==
  IF aggregated = "text" THEN 5
  ELSE IF aggregated = "blank" THEN 0
  ELSE outLen

\* the remote stream ends and finalResponse() resolves: an empty output
\* ends the stream, any other goes on to incrementQuota
afterFinalResponse(r, reply, at) ==
  LET out == outputLength(r.stream.aggregated, reply.outLen)
  IN  IF out = 0
        THEN [endWith(r, "error") EXCEPT !.remote = "empty"]
        ELSE [r EXCEPT !.pc = "recording",
                       !.remote = "output",
                       !.tokensUsed = normaliseUsage(reply.usage, reply.srcLen, out),
                       !.timestamp = usageTimestamp(r.now, at),
                       !.completedAt = at]

StreamReplies ==
  { [srcLen |-> 4, outLen |-> 5, usage |-> Usage(Num(1000), Null, Null)],
    [srcLen |-> 4, outLen |-> 0, usage |-> NoUsage] }

RemoteEnds(p) ==
  /\ rq[p].pc = "streaming"
  /\ \E reply \in StreamReplies :
       rq' = [rq EXCEPT ![p] = afterFinalResponse(rq[p], reply, clock)]
  /\ UNCHANGED <<tick, configured, faults, store, reached, lifetime, probe,
                 tokenizer, page, conn>>

\* await incrementQuota(...) has settled with w: the final event with the
\* status returned, or the error event of the catch block
afterIncrementQuota(r, w) ==
  IF w.kind = "status"
    THEN [endWith([r EXCEPT !.stream.quota = w.status], "final")
            EXCEPT !.stream.recorded = TRUE,
                   !.stream.returned = w.status,
                   !.applied = @ + 1]
    ELSE endWith(r, "error")

Record(p) ==
  /\ rq[p].pc = "recording"
  /\ \E f \in WriteFaults :
       /\ FaultAllowed(f)
       /\ faults' = FaultCount(f)
       /\ \E w \in { incrementQuota(f, store, Int2Num(rq[p].tokensUsed),
                                    rq[p].model, rq[p].timestamp, clock) } :
            /\ store' = w.store
            /\ rq' = [rq EXCEPT ![p] = afterIncrementQuota(rq[p], w)]
  /\ UNCHANGED <<tick, configured, reached, lifetime, probe, tokenizer,
                 page, conn>>

NextStream ==
  \/ Tick
  \/ \E p \in Procs : OpenStream(p)
  \/ \E p \in Procs : RemoteDelta(p)
  \/ \E p \in Procs : RemoteError(p)
  \/ \E p \in Procs : RemoteThrows(p)
  \/ \E p \in Procs : RemoteEnds(p)
  \/ \E p \in Procs : Record(p)

SpecStream == Init /\ [][NextStream]_vars

\* ================================================================== claims
RECURSIVE SumCharged(_)
\* the tokens charged by the requests of a set
SumCharged(S) ==
  IF S = {} THEN 0
  ELSE LET p == CHOOSE q \in S : TRUE
       IN  rq[p].charged + SumCharged(S \ {p})

Total(d) == getUsage(store, d)
InFlight(p) == rq[p].pc \in {"admitted", "exec"}

\* C1: no lost updates. The stored total of a day key is the sum of the
\* normalised deltas of all the incrementUsage transactions applied to it
\* since the key was created, however the calls interleave.
C1_NoLostUpdates ==
  \A d \in DayKeys : Total(d) = SumCharged(lifetime[d].applied)

\* two incrementUsage calls with positive deltas are in progress together on
\* one day key: both transactions are applied and neither call has returned
C1_Witness ==
  \E d \in DayKeys :
    /\ lifetime[d].applied = Procs
    /\ \A p \in Procs : rq[p].pc = "readback" /\ rq[p].charged = 1500000
    /\ Total(d) = 3000000

ChargedOn(d, S) ==
  SumCharged({p \in S : rq[p].applied > 0 /\ rq[p].chargedKey = d})

CheckFailed(p) == rq[p].pc \notin {"idle", "check"} /\ rq[p].seen = NoStatus

\* C4: fail-closed admission. The remote call is made only by a request whose
\* ensureQuotaAvailable returned a status with remaining > 0; a request whose
\* check met an unconfigured or unreachable store, or a read that threw, has
\* ended with an error response, made no remote call and recorded nothing.
C4_FailClosed ==
  \A p \in Procs :
    /\ (InFlight(p) \/ rq[p].remote # "none")
         => rq[p].seen # NoStatus /\ rq[p].seen.remaining > 0
    /\ CheckFailed(p)
         => /\ rq[p].pc = "done"
            /\ rq[p].resp.error \in {"quota_disabled", "quota_check_failed"}
            /\ rq[p].resp.status \in {500, 503}
            /\ rq[p].remote = "none"
            /\ rq[p].applied = 0

\* one request was refused at its check because the store was unreachable,
\* another passed its check and made the remote call
C4_Witness ==
  \E p, q \in Procs :
    /\ CheckFailed(p) /\ rq[p].resp.status = 503
    /\ rq[q].remote = "output" /\ rq[q].seen.remaining > 0

\* C5: once the total of a UTC day has reached the limit, every
\* request whose quota check reads the store later in that UTC day is
\* rejected with 429 and the quota status, without remote call or increment.
C5_RejectedForTheDay ==
  \A p \in Procs :
    rq[p].late
      => /\ rq[p].pc \in {"exceeded", "done"}
         /\ rq[p].remote = "none"
         /\ rq[p].applied = 0
         /\ rq[p].pc = "done"
              => rq[p].resp.status = 429 /\ rq[p].resp.quota # NoStatus

ExpiryAssigned(timestamp, at) ==
  AddMs(at, secondsUntilNextUtcMidnight(timestamp) * MS_PER_SECOND)

\* request p's transaction is applied in this step
Applies(p) == rq'[p].applied = rq[p].applied + 1

Written(d) == \E q \in Procs : rq[q].applied > 0 /\ rq[q].chargedKey = d

\* C8: day rollover. Increments whose timestamps fall on different UTC dates
\* are applied to different day keys; a transaction changes no key of any
\* other day; a status read for a day reports used = 0 as long as no
\* increment was applied to that day's key, whatever other days hold.
C8_DayRollover ==
  [][ /\ \A p, q \in Procs :
           (rq[p].applied > 0 /\ rq[q].applied > 0)
             => (rq[p].chargedAt.day # rq[q].chargedAt.day
                   <=> rq[p].chargedKey # rq[q].chargedKey)
      /\ \A p \in Procs :
           Applies(p)
             => \A k \in Keys :
                  k[2] # currentDateKey(rq[p].timestamp) => store'[k] = store[k]
      /\ \A p \in Procs :
           (rq[p].pc = "check" /\ rq'[p].seen # NoStatus)
             => \/ rq'[p].seen.used = 0
                \/ Written(currentDateKey(rq[p].now))
    ]_vars

\* an increment at 23:59:59.9 and one at 00:00:00.1 of the next day sit in
\* two day keys, the old record not yet expired, and the request of the new
\* day read used = 0 at its check
C8_Witness ==
  \E p, q \in Procs :
    /\ rq[p].applied = 1 /\ rq[p].chargedAt = Date(20088, 86399900)
    /\ rq[q].applied = 1 /\ rq[q].chargedAt = Date(20089, 100)
    /\ rq[p].chargedKey # rq[q].chargedKey
    /\ rq[p].charged > 0 /\ rq[q].charged > 0
    /\ Total(rq[p].chargedKey) = rq[p].charged
    /\ Total(rq[q].chargedKey) = rq[q].charged
    /\ rq[q].seen.used = 0
    /\ rq[q].seen.serverTime.day = 20089

\* C9: monotonic usage. In every step the total of a day key either stays,
\* or grows by the tokens of the one transaction applied in that step, or
\* the key expires; no step removes a key whose expiry has not passed.
C9_MonotonicUsage ==
  [][ \A d \in DayKeys :
        LET k == composeKey(d, "total")
        IN  /\ \/ Total(d)' = Total(d)
               \/ \E p \in Procs :
                    /\ Applies(p)
                    /\ Total(d)' = Total(d) + normaliseTokens(Int2Num(rq[p].tokensUsed))
                    /\ Total(d)' > Total(d)
               \/ /\ tick' # tick
                  /\ store[k].exp # NoExp
                  /\ DateLE(store[k].exp, clock')
                  /\ Total(d)' = 0
            /\ \A t \in KeyTypes :
                 (store[composeKey(d, t)].present /\ ~store'[composeKey(d, t)].present)
                   => /\ tick' # tick
                      /\ DateLE(store[composeKey(d, t)].exp, clock')
    ]_vars

\* a total that was recorded is gone again by expiry alone
C9_Witness ==
  \E p \in Procs :
    /\ rq[p].applied = 1
    /\ rq[p].charged > 0
    /\ ~store[composeKey(rq[p].chargedKey, "total")].present

\* C10: atomic multi-key increment. The step that applies a transaction
\* changes the total, the request counter and the per-model histogram of its
\* day together, and no other step of a request changes any key.
C10_AtomicIncrement ==
  [][ /\ (tick' = tick /\ \A p \in Procs : ~Applies(p)) => store' = store
      /\ \A p \in Procs :
           Applies(p)
             => LET d == currentDateKey(rq[p].timestamp)
                    n == normaliseTokens(Int2Num(rq[p].tokensUsed))
                    m == rq[p].model
                    models == composeKey(d, "models")
                    requests == composeKey(d, "requests")
                IN  /\ store'[requests].val = store[requests].val + 1
                    /\ getUsage(store', d) = getUsage(store, d) + n
                    /\ store'[models].val[m] = store[models].val[m] + n
    ]_vars

\* a transaction has just been applied and its call has not returned: total,
\* request counter and histogram all show it
C10_Witness ==
  \E p \in Procs :
    LET d == rq[p].chargedKey
    IN  /\ rq[p].pc = "readback"
        /\ rq[p].charged = 1500000
        /\ Total(d) = 1500000
        /\ store[composeKey(d, "requests")].val = 1
        /\ store[composeKey(d, "models")].val[rq[p].model] = 1500000

C12_StatusShape ==
  probe.status # NoStatus
    => LET st == probe.status
       IN  /\ st.limit = 2500000
           /\ st.used = probe.used
           /\ st.remaining = IF probe.used >= 2500000 THEN 0 ELSE 2500000 - probe.used
           /\ st.remaining >= 0
           /\ st.serverTime = probe.now
           /\ st.resetAt.ms = 0
           /\ ~DateLE(st.resetAt, probe.now)
           /\ DateLE(st.resetAt, AddMs(probe.now, MS_PER_DAY))

\* the status of an overshot total taken exactly at the midnight that
\* starts 2024-02-29: remaining 0, reset 24 hours later on 2024-03-01
C12_Witness ==
  /\ probe.status # NoStatus
  /\ probe.used = 2600000
  /\ probe.status.remaining = 0
  /\ probe.now = Date(19782, 0)
  /\ probe.status.resetAt = Date(19783, 0)

\* the total the calls should have left on day key d
ExpectedUsage(d) ==
  IF store[composeKey(d, "total")].present THEN probe.sum[d] ELSE 0

\* C13: getUsage returns 0 for a day key that was never written or has
\* expired, and after any sequence of incrementUsage calls on a day key
\* within its lifetime it returns the sum of the normalised deltas (a
\* negative, zero or non-finite delta counts 0, any other is rounded), as
\* does the total each incrementUsage call returns.
C13_UsageIsSumOfDeltas ==
  /\ \A d \in DayKeys : getUsage(store, d) = ExpectedUsage(d)
  /\ \A d \in DayKeys :
       ~store[composeKey(d, "total")].present => getUsage(store, d) = 0
  /\ (probe.op \in {"incrementUsage", "getUsage"} /\ probe.at = tick)
       => probe.ret = ExpectedUsage(probe.key)

\* increments of 100 and 50: the second call returned 150 and the day's
\* usage reads 150
C13_Witness ==
  /\ probe.calls = 2
  /\ probe.op = "incrementUsage"
  /\ probe.ret = 150
  /\ getUsage(store, probe.key) = 150
  /\ store[composeKey(probe.key, "requests")].val = 2

\* a GET /api/quota was served while the store was unconfigured or
\* unreachable, or its read failed
StoreFailedForGet ==
  probe.op = "GET" /\ probe.fault # "none"

\* C14: no fabricated zero on failure. Whenever the store is unconfigured
\* or unreachable, getQuotaStatus throws or returns null with a disabled
\* reason, and the quota endpoint reports the condition (an error status,
\* or enabled: false with the reason); no response then carries a status.
C14_NoFabricatedZero ==
  StoreFailedForGet
    => /\ probe.result \in {"null", "threw"}
       /\ probe.resp.quota = NoStatus
       /\ \/ probe.resp.status \in {500, 503} /\ probe.resp.error # ""
          \/ /\ probe.resp.status = 200
             /\ probe.resp.enabled = "false"
             /\ probe.resp.message \in {"REDIS_URL", "connect_failed"}

\* a day with recorded usage, the store then unreachable: the endpoint
\* answers enabled: false with the reason and no status
C14_Witness ==
  /\ probe.op = "GET" /\ probe.fault = "refused" /\ probe.variant = "lenient"
  /\ probe.resp.enabled = "false" /\ probe.resp.quota = NoStatus
  /\ \E d \in DayKeys : getUsage(store, d) = 150

\* the check of request p found remaining <= 0
FoundExhausted(p) ==
  rq[p].seen # NoStatus /\ rq[p].seen.remaining <= 0

C16_ChecksAreReadOnly ==
  [][ \A p \in Procs :
        (rq[p].pc \in {"check", "exceeded"} /\ rq'[p].pc # rq[p].pc)
          => /\ store' = store
             /\ rq'[p].applied = rq[p].applied
    ]_vars

\* one request has recorded 1,500,000; the check of the other then read
\* 1,500,000, was admitted, and the store still holds just that record
C16_Witness ==
  \E p, q \in Procs, d \in DayKeys :
    /\ rq[p].applied = 1 /\ rq[p].chargedKey = d /\ rq[p].charged = 1500000
    /\ rq[q].pc = "admitted"
    /\ rq[q].seen.used = 1500000 /\ rq[q].seen.remaining = 1000000
    /\ Total(d) = 1500000
    /\ store[composeKey(d, "requests")].val = 1

\* C17: the request that exhausts the budget still completes. A request
\* whose increment was applied and whose incrementQuota returned a status
\* with remaining = 0 is answered with the success payload (its
\* translation, the status and the usage).
C17_ExhaustingRequestCompletes ==
  \A p \in Procs :
    ( /\ rq[p].pc = "done"
      /\ rq[p].applied = 1
      /\ rq[p].resp.quota # NoStatus
      /\ rq[p].resp.quota.remaining = 0 )
      => rq[p].resp.status = 200 /\ rq[p].resp.error = ""

\* C18: a failed usage write is never reported as success. A request whose
\* incrementQuota fails (no client, the transaction rejects or is not
\* executed, the read of the new total rejects) ends with quota_disabled
\* or quota_persist_failed and no quota status; the success payload is
\* only sent with the status read after the request's applied increment.
C18_FailedWriteNotSuccess ==
  [][ \A p \in Procs :
        (rq[p].pc \in {"exec", "readback"} /\ rq'[p].pc = "done")
          => \/ /\ rq[p].pc = "readback"
                /\ rq'[p].applied = 1
                /\ rq'[p].resp.status \in {200, 429}
                /\ rq'[p].resp.quota # NoStatus
                /\ rq'[p].resp.quota.used = getUsage(store, rq[p].chargedKey)
             \/ /\ rq'[p].resp.status \in {500, 503}
                /\ rq'[p].resp.error \in {"quota_disabled", "quota_persist_failed"}
                /\ rq'[p].resp.quota = NoStatus
    ]_vars

\* after a completed remote call one request could not reach the store
\* and was answered quota_disabled with nothing recorded, while the other
\* recorded its usage and got the success payload
C18_Witness ==
  \E p, q \in Procs :
    /\ rq[p].pc = "done" /\ rq[p].remote = "output" /\ rq[p].applied = 0
    /\ rq[p].resp.status = 503 /\ rq[p].resp.error = "quota_disabled"
    /\ rq[q].pc = "done" /\ rq[q].applied = 1 /\ rq[q].resp.status = 200

\* the last call was a getQuotaStatus (behind GET /api/quota) or an
\* incrementQuota made with no endpoint configured or no connection
CalledWithoutStore ==
  /\ probe.op \in {"GET", "incrementQuota"}
  /\ probe.fault \in {"unconfigured", "refused"}

C20_TtlIsCeil ==
  probe.ttl # 0
    => LET ms == MsUntilNextUtcMidnight(probe.now)
       IN  /\ probe.ttl = Max(1, (ms + MS_PER_SECOND - 1) \div MS_PER_SECOND)
           /\ probe.ttl >= 1 /\ probe.ttl <= 86400
           /\ DateLE(nextUtcMidnight(probe.now),
                     AddMs(probe.now, probe.ttl * MS_PER_SECOND))

\* estimateTranslationTokenUsage was called directly and has settled
Estimated == "estimateTranslationTokenUsage" \in probe.est.called

\* C21: for every model and language pair, estimateTranslationTokenUsage
\* on an empty or white-space-only text (and no image) returns an estimate
\* whose five fields are all 0, without throwing, also when the tokenizer
\* cannot be initialised.
C21_EmptyTextIsZero ==
  ( /\ Estimated
    /\ probe.est.image = NoImage
    /\ Length(Trim(probe.est.text)) = 0 )
    => /\ probe.est.result.kind = "fulfilled"
       /\ probe.est.result.est = ZeroEstimate

\* C22: for a non-empty text, the estimate's totalTokens equals
\* systemTokens + promptTokens + sourceTokens + estimatedResponseTokens,
\* where estimatedResponseTokens = max(64, round(1.2 * sourceTokens),
\* sourceTokens) + 3 and the system and prompt tokens each include the
\* per-message overhead of 12.
C22_TotalIsSum ==
  ( /\ Estimated
    /\ probe.est.image = NoImage
    /\ Length(Trim(probe.est.text)) > 0
    /\ probe.est.result.kind = "fulfilled" )
    => LET e == probe.est.result.est
           src == e.sourceTokens
           scaled == (12 * src + 5) \div 10
       IN  /\ e.totalTokens = e.systemTokens + e.promptTokens
                                + e.sourceTokens + e.estimatedResponseTokens
           /\ e.estimatedResponseTokens =
                (IF src >= 64 /\ src >= scaled THEN src
                 ELSE IF scaled >= 64 THEN scaled ELSE 64) + 3
           /\ e.systemTokens = probe.est.enc.system + 12
           /\ e.promptTokens =
                PromptLength(probe.est.enc, Trim(probe.est.text),
                             probe.est.sourceLang) + 12
           /\ e.sourceTokens = EncodeLength(probe.est.enc, Trim(probe.est.text))

\* the base cost of the tile-based models
TileBase(model) ==
  IF model = "gpt-4o-mini" THEN 2833 ELSE IF model = "o3-mini" THEN 75 ELSE 0

\* C23: for a tile-based model and detail = "low", estimateImageTokens
\* returns exactly the model's base cost (2833 for gpt-4o-mini, 75 for
\* o3-mini) for every width and height, non-positive and fractional ones
\* included; so does the sourceTokens of an image estimate.
C23_LowDetailIsBase ==
  ( /\ probe.est.model \in {"gpt-4o-mini", "o3-mini"}
    /\ probe.est.image # NoImage
    /\ probe.est.image.detail = "low" )
    => /\ "estimateImageTokens" \in probe.est.called
            => probe.est.imageTokens = TileBase(probe.est.model)
       /\ (Estimated /\ probe.est.result.kind = "fulfilled")
            => probe.est.result.est.sourceTokens = TileBase(probe.est.model)

\* a low-detail image of -5 by 0.5 pixels costs 2833 tokens on gpt-4o-mini
C23_Witness ==
  /\ "estimateImageTokens" \in probe.est.called
  /\ probe.est.model = "gpt-4o-mini"
  /\ probe.est.image = Image(-50, 5, "low")
  /\ probe.est.imageTokens = 2833

\* C24: estimation never fails or blocks the caller. When the tokenizer
\* cannot be initialised or loaded, the estimation of the page settles
\* with a definite estimate, ceil(trimmed character length / 3) for a text
\* (0 for an image), the estimating flag is cleared and the failure is
\* only noted on the page; the flag is set exactly while the promise of the
\* live effect run is pending.
C24_FallbackOnFailure ==
  /\ page.settled = "rejected"
       => /\ ~page.isEstimatingTokens
          /\ page.tokenEstimateError # "null"
          /\ page.estimatedTokens =
               IF isImageMode(page) THEN 0
               ELSE (Length(page.debouncedSourceText) + 2) \div 3
  /\ page.isEstimatingTokens <=> \E c \in page.calls : c.active

\* the estimation of "abcd" failed: the page shows 2 tokens, marked as an
\* approximation, and no longer estimates
C24_Witness ==
  /\ page.settled = "rejected"
  /\ page.debouncedSourceText = Text(0, 4, 0)
  /\ page.estimatedTokens = 2
  /\ page.tokenEstimateError = "approximated"
  /\ ~page.isEstimatingTokens

\* the least the page predicts for an input: what it shows when the
\* tokenizer fails (the character estimate of a text, 0 for an image)
LeastPredictedCost(text, image) ==
  IF image # NoImage THEN 0 ELSE fallbackCharacterEstimate(text)

\* C25: client-side admission control. The page never sends a translate
\* request whose input (the text or image submitted) has a predicted cost
\* above the last known remaining quota; no request is sent while the
\* estimate shown belongs to an earlier text than the one submitted (the
\* 300 ms debounce window) or while an estimate is being computed.
C25_NoRequestOverEstimate ==
  page.sent.count > 0
    => /\ ~page.sent.estimating
       /\ page.sent.image = NoImage
            => page.sent.debounced = Trim(page.sent.text)
       /\ page.sent.quota.known
            => /\ page.sent.shown <= page.sent.quota.remaining
               /\ LeastPredictedCost(page.sent.text, page.sent.image)
                    <= page.sent.quota.remaining


\* C26: among the calls of getRedisClient of one server instance, however
\* they interleave, no client is made and connected while a client made
\* earlier is still open: at most one client is open at any time.
C26_OneOpenClient ==
  Cardinality({c \in Clients : conn.clients[c] = "ready"}) <= 1

\* C27: in the lenient library a call of getRedisClient that finds a closed
\* client in the slot tries to reconnect it before it makes any client; the
\* slot is emptied only by a call whose reconnection failed; such a call
\* ends with a client it made and connected itself, or with null and a
\* disabled reason; and whenever a call returns a client the disabled
\* reason is null.
Lenient == conn.library = "lenient"

C27_CallsEndRight ==
  Lenient =>
    \A p \in Procs :
      LET c == conn.call[p]
      IN /\ c.foundClosed /\ c.created => c.reconnectFailed
         /\ c.reconnectFailed => c.foundClosed
         /\ c.reconnectFailed /\ c.outcome # "none"
              => \/ /\ c.outcome = "client"
                    /\ c.created
                    /\ c.ret = c.client
                    /\ c.reasonAtReturn = "null"
                 \/ /\ c.outcome = "null"
                    /\ c.reasonAtReturn # "null"
         /\ c.outcome = "client" => c.reasonAtReturn = "null" /\ c.ret # 0

C27_DroppedOnlyAfterFailure ==
  Lenient /\ conn.slot # 0 /\ conn'.slot = 0
    => \E p \in Procs :
         /\ conn.call[p].pc = "disconnecting"
         /\ conn.call[p].reconnectFailed
         /\ conn'.call[p].pc = "importing"

C27_ReconnectBeforeDegrading ==
  [][C27_CallsEndRight /\ C27_CallsEndRight' /\ C27_DroppedOnlyAfterFailure]_vars

\* a call found the client closed, failed to reconnect it, and came back
\* with a client of its own
C27_Witness ==
  /\ Lenient
  /\ \E p \in Procs :
       /\ conn.call[p].reconnectFailed
       /\ conn.call[p].outcome = "client"
       /\ conn.call[p].created

\* the same, ending with null
C27_WitnessNull ==
  /\ Lenient
  /\ \E p \in Procs :
       /\ conn.call[p].reconnectFailed
       /\ conn.call[p].outcome = "null"


\* C28: however the calls of getEncoder interleave, init is invoked at most
\* once, the vocabulary is loaded at most once, and all callers that get an
\* encoder get the same instance.
GotEncoder(p) == tokenizer.call[p].outcome = "encoder"

C28_InitOnce == tokenizer.inits <= 1

C28_SharedInitialisation ==
  /\ C28_InitOnce
  /\ tokenizer.loads <= 1
  /\ \A p, q \in Procs :
       GotEncoder(p) /\ GotEncoder(q)
         => tokenizer.call[p].encoder = tokenizer.call[q].encoder


\* C29: the total that incrementUsage returns, which the handler reports as
\* used, is the total of the day key before the call's own transaction plus
\* the call's normalised tokens, whatever happens between the transaction
\* and the read that follows it.
C29_ReturnsOwnTotal ==
  [][ \A p \in Procs :
        ( /\ rq[p].pc = "readback"
          /\ rq'[p].pc = "done"
          /\ rq'[p].resp.quota # NoStatus )
          => rq'[p].resp.quota.used = rq[p].chargedOnto + rq[p].charged
    ]_vars


\* C30: a call of incrementUsage adds exactly 1 to the day's request
\* counter; when its tokens normalise to 0 the total key and the models key
\* are left as they were (an absent total key stays absent) and the total
\* as it was is returned; when they are positive the total grows by
\* exactly the normalised tokens.
CounterOf(s, d) ==
  IF s[composeKey(d, "requests")].present
    THEN s[composeKey(d, "requests")].val ELSE 0

C30_FrameOfIncrementUsage ==
  [][ probe'.calls = probe.calls + 1
        => LET d == probe'.key
               totalKey == composeKey(d, "total")
               modelsKey == composeKey(d, "models")
           IN /\ probe'.op = "incrementUsage"
              /\ CounterOf(store', d) = CounterOf(store, d) + 1
              /\ probe'.tokens = 0
                   => /\ store'[totalKey] = store[totalKey]
                      /\ store'[modelsKey] = store[modelsKey]
                      /\ probe'.ret = getUsage(store, d)
              /\ probe'.tokens > 0
                   => /\ store'[totalKey].present
                      /\ getUsage(store', d) = getUsage(store, d) + probe'.tokens
                      /\ probe'.ret = getUsage(store, d) + probe'.tokens
    ]_vars

\* a call whose tokens normalised to 0 was the first of its day: the
\* request counter is 1 and there is no total key
C30_Witness ==
  /\ probe.op = "incrementUsage"
  /\ probe.at = tick
  /\ probe.tokens = 0
  /\ store[composeKey(probe.key, "requests")].present
  /\ store[composeKey(probe.key, "requests")].val = 1
  /\ ~store[composeKey(probe.key, "total")].present


\* C31: for every day key the values of the per-model hash add up to at
\* most the day's total, and to exactly the total when no increment of the
\* day came without a model (the translate handler always passes one).
RECURSIVE SumFields(_, _)
SumFields(h, S) ==
  IF S = {} THEN 0
  ELSE LET m == CHOOSE x \in S : TRUE
       IN  h[m] + SumFields(h, S \ {m})

\* HGETALL of the models key, summed
HistogramSum(s, d) ==
  IF s[composeKey(d, "models")].present
    THEN SumFields(s[composeKey(d, "models")].val, Models)
    ELSE 0

AcrossMidnight(r) == currentDateKey(r.now) # currentDateKey(r.completedAt)

C32_ChargedToDayOfCompletion ==
  [][ \A p \in Procs :
        ( /\ rq[p].pc = "exec"
          /\ rq'[p].pc = "readback"
          /\ AcrossMidnight(rq[p]) )
          => LET dNew == currentDateKey(rq[p].completedAt)
                 dOld == currentDateKey(rq[p].now)
             IN /\ rq'[p].chargedKey = dNew
                /\ getUsage(store', dNew)
                     = getUsage(store, dNew)
                         + normaliseTokens(Int2Num(rq[p].tokensUsed))
                /\ store'[composeKey(dOld, "total")]
                     = store[composeKey(dOld, "total")]
                /\ getUsage(store', dOld) = getUsage(store, dOld)
    ]_vars

\* a request checked on 2024-12-31 has recorded its tokens on 2025-01-01
C32_Witness ==
  \E p \in Procs :
    /\ rq[p].applied = 1
    /\ rq[p].charged > 0
    /\ AcrossMidnight(rq[p])
    /\ rq[p].chargedKey = currentDateKey(rq[p].completedAt)
    /\ getUsage(store, rq[p].chargedKey) >= rq[p].charged


Terminal(e) == e \in {"final", "error"}

WellFormedStream(r) ==
  LET st == r.stream
      n == Len(st.events)
  IN  /\ \A i \in 1..n : i < n => st.events[i] = "delta"
      /\ st.closed <=> (n > 0 /\ Terminal(st.events[n]))
      /\ st.closed <=> (r.pc = "done")
      /\ ~st.threw
      /\ (n > 0 /\ st.events[n] = "final")
           => /\ st.recorded
              /\ st.quota = st.returned
              /\ st.quota # NoStatus
              /\ st.quota.used >= normaliseTokens(Int2Num(r.tokensUsed))

CurrentText(pg) == IF isImageMode(pg) THEN EmptyText ELSE pg.debouncedSourceText

IsCurrent(pg, c) ==
  c.text = CurrentText(pg) /\ c.image = pg.image /\ c.model = pg.model

SupersededSettles ==
  \E c \in page.calls : ~c.active /\ page'.calls = page.calls \ {c}

C35_OneCurrentEstimate ==
  /\ \A c, d \in page.calls : c.active /\ d.active => c = d
  /\ \A c \in page.calls : c.active => IsCurrent(page, c)
  /\ page.settled = "fulfilled"
       => page.estimatedTokens =
            estimateTranslationTokenUsage(TRUE, PageEncoder, CurrentText(page),
                                          page.image, page.model, "auto"
                                         ).est.totalTokens

C36_PatchesWithinMaximum ==
  LET e == probe.est
      multiplier == PATCH_BASE_MODELS[e.model]
      w == Max(1, e.image.width \div 10)
      h == Max(1, e.image.height \div 10)
      rawPatches == CeilDiv(w, 32) * CeilDiv(h, 32)
      patches == countedPatches(e.image.width, e.image.height)
  IN  "estimateImageTokens" \in e.called /\ multiplier # 0
        => /\ e.imageTokens = RoundDiv(patches * multiplier, 100)
           /\ 1 <= patches
           /\ patches <= 1536
           /\ e.imageTokens <= RoundDiv(1536 * multiplier, 100)
           /\ rawPatches <= 1536
                => e.imageTokens = RoundDiv(rawPatches * multiplier, 100)

============================================================================
